---- MODULE Spec2Model ----
(***************************************************************************)
(* Leekha rules engine: the round/trick state machine of GameState, the    *)
(* CardTracker it drives, the seats' pass/play answers, the legality and   *)
(* trick-winner rules, and the DOM input controller of the human seat.     *)
(*                                                                         *)
(* Cards are the integers 0..51, card = 13 * suit + value, suits in the    *)
(* order of SUITS / sortHand's suitOrder (H=0, S=1, D=2, C=3) and value    *)
(* the index of the rank in RANKS (2=0 .. A=12).  A hand is the sequence   *)
(* Player.hand; the code keeps it sorted by (suit, value), which is the    *)
(* integer order of this encoding.                                         *)
(***************************************************************************)
EXTENDS Integers, Sequences, FiniteSets, TLC

VARIABLES
    pc,                      \* where the startRound / playTrick / endRound loop is suspended
    rng,                     \* index of the Math.random stream of this run
    strategy,                \* per seat: how the seat answers choosePassCards / playCard
    simulation,              \* GameState.simulation: [enabled, target, completed]
    hand,                    \* players[i].hand
    score,                   \* players[i].score
    currentRoundPoints,      \* players[i].currentRoundPoints
    trick,                   \* GameState.trick: sequence of [player, card]
    roundNumber,             \* GameState.roundNumber
    dealerIndex,             \* GameState.dealerIndex
    queenOfSpadesCapturedBy, \* GameState.queenOfSpadesCapturedBy (NULL when none)
    cardTracker,             \* GameState.cardTracker
    initialHands,            \* GameState.initialHands: the card ids of the hands after the pass
    choices,                 \* handlePassingPhase: the selections resolved so far (NoChoice when pending)
    leader,                  \* startRound: local leader
    trickNum,                \* startRound: local trickNum
    winnerIndex,             \* playTrick: local winnerIndex
    roundsStarted,           \* number of startRound calls of this run
    dealt,                   \* history: the hands right after deal()
    passOrder,               \* history: the seats in the order their selections resolved
    lastPlay,                \* history: the last playCard answer and what playTrick committed
    lastEnd,                 \* history: what the last endRound found and decided
    position,                \* playTrick: local i, the position being played
    suitLed,                 \* playTrick: local leadSuit (NULL before the lead)
    suspended,               \* the other startRound loops that wait at an await, and timers
    resumptions,             \* history: how often the event loop went on with another loop
    roundLog,                \* history: the phases the current round has gone through
    queenTricks,             \* history: the winners of this round's tricks that held the Queen of Spades
    players,                 \* GameState.players: the entries of the player list
    initArg,                 \* the argument of the initialize call
    initOut,                 \* history: what initialize emitted and threw
    botIn,                   \* the game state a BotAdapter or a strategy is called in
    botOut,                  \* history: what the last BotAdapter or strategy call did and returned
    argHand,                 \* the hand a rule or a selection request is given
    argTrick,                \* GameState.trick at that call
    ruleOut,                 \* what the rule under study returned
    ctl,                     \* DOMInputController: state, pending resolvers, validMoves, timeout
    promises,                \* the promises getCardSelection / getPassSelection returned
    timers,                  \* the setTimeout timers that are armed
    human,                   \* the HumanPlayer.playCard call of the human seat
    lastCall,                \* history: the last controller call, what it found and emitted
    emitter                  \* GameEventEmitter: the listeners of an event and, as history, the calls made of each handler

gameVars == <<pc, rng, strategy, simulation, hand, score, currentRoundPoints, trick,
              roundNumber, dealerIndex, queenOfSpadesCapturedBy, cardTracker, initialHands, choices,
              leader, trickNum, winnerIndex, roundsStarted, dealt, passOrder, lastPlay,
              lastEnd, position, suitLed, suspended, resumptions, roundLog, queenTricks>>

ruleVars == <<argHand, argTrick, ruleOut>>

inputVars == <<ctl, promises, timers, human, lastCall>>

initVars == <<players, initArg, initOut>>

botVars == <<botIn, botOut>>

emitterVars == <<emitter>>

vars == <<gameVars, ruleVars, inputVars, initVars, botVars, emitterVars>>

-----------------------------------------------------------------------------
(* Bounds of the exploration *)

NumStreams == 1        \* Math.random streams explored
MaxDeviants == 2       \* seats whose strategy is not the engine's own fallback
MaxRounds == 3         \* startRound calls explored per run
MaxSimGames == 1       \* largest simulation.target explored
MaxRuleHand == 3       \* largest hand given to getValidMoves on its own
MaxInputHand == 3      \* largest hand of the human seat at a selection request
MaxRequests == 2       \* selection requests made of the input controller
MaxOverlap == 1        \* startRound loops kept waiting besides the one that runs
MaxResumptions == 1    \* times the event loop goes on with another loop than the last
LastRestartRound == 1  \* the round by which startNewGame has been called again

(* Program constants *)

PLAYERS_COUNT == 4
HAND_SIZE == 13
PASS_CARDS_COUNT == 3
SCORE_LIMIT == 101
TRICKS_PER_ROUND == 13
NoVoidRevealed == 100

NULL == -1

Seats == 0 .. (PLAYERS_COUNT - 1)
Cards == 0 .. 51
SuitH == 0
SuitS == 1
SuitD == 2
SuitC == 3
Suits == {SuitH, SuitS, SuitD, SuitC}

Suit(c) == c \div 13
Value(c) == c % 13

QueenOfSpades == 13 * SuitS + 10
TenOfDiamonds == 13 * SuitD + 8

RANKS == <<"2", "3", "4", "5", "6", "7", "8", "9", "10", "J", "Q", "K", "A">>
SUITS == <<"H", "S", "D", "C">>

\* Card.id: the rank and the suit
cardId(c) == <<RANKS[Value(c) + 1], SUITS[Suit(c) + 1]>>

\* hand.map(card => card.id)
cardIds(h) == [k \in 1 .. Len(h) |-> cardId(h[k])]

points(c) ==
    IF Suit(c) = SuitH THEN 1
    ELSE IF c = QueenOfSpades THEN 13
    ELSE IF c = TenOfDiamonds THEN 10
    ELSE 0

-----------------------------------------------------------------------------
(* Sequence helpers *)

Range(s) == {s[k] : k \in 1 .. Len(s)}

RECURSIVE SumSeq(_)
SumSeq(s) == IF s = <<>> THEN 0 ELSE Head(s) + SumSeq(Tail(s))

SumOver(f) == f[0] + f[1] + f[2] + f[3]

Last(s) == s[Len(s)]

-----------------------------------------------------------------------------
(* Player: sortHand, receiveCards, removeCards *)

\* Array.prototype.sort with sortHand's comparator is stable: a card goes
\* behind every card that does not compare greater.
RECURSIVE InsertSorted(_, _)
InsertSorted(c, s) ==
    IF s = <<>> THEN <<c>>
    ELSE IF Head(s) <= c THEN <<Head(s)>> \o InsertSorted(c, Tail(s))
    ELSE <<c>> \o s

RECURSIVE sortHand(_)
sortHand(s) ==
    IF s = <<>> THEN <<>>
    ELSE InsertSorted(Last(s), sortHand(SubSeq(s, 1, Len(s) - 1)))

receiveCards(h, cards) == sortHand(h \o cards)

\* removal is by card id: every copy of a listed card leaves the hand
removeCards(h, cardsToRemove) == SelectSeq(h, LAMBDA c : c \notin Range(cardsToRemove))

\* [...hand].sort((a, b) => b.value - a.value): stable, highest value first
RECURSIVE InsertByValueDesc(_, _)
InsertByValueDesc(c, s) ==
    IF s = <<>> THEN <<c>>
    ELSE IF Value(Head(s)) >= Value(c) THEN <<Head(s)>> \o InsertByValueDesc(c, Tail(s))
    ELSE <<c>> \o s

RECURSIVE sortByValueDesc(_)
sortByValueDesc(s) ==
    IF s = <<>> THEN <<>>
    ELSE InsertByValueDesc(Last(s), sortByValueDesc(SubSeq(s, 1, Len(s) - 1)))

slice3(s) == SubSeq(s, 1, IF Len(s) < PASS_CARDS_COUNT THEN Len(s) ELSE PASS_CARDS_COUNT)

highestThree(h) == slice3(sortByValueDesc(h))

-----------------------------------------------------------------------------
(* GameState: createDeck, deal *)

\* the deck before the shuffle: suits in SUITS order, ranks in RANKS order
freshDeck == [k \in 1 .. 52 |-> k - 1]

\* Math.floor(Math.random() * (i + 1)) of the shuffle, as drawn by the stream
\* with the given seed
shuffleDraw(seed, i) == seed % (i + 1)

\* a swap that copied deck[j] over deck[i] and lost deck[i]
swapLosingACard(d, i, j) == [d EXCEPT ![i + 1] = d[j + 1]]

swap(d, i, j) == [d EXCEPT ![i + 1] = d[j + 1], ![j + 1] = d[i + 1]]

RECURSIVE fisherYates(_, _, _)
fisherYates(d, i, seed) ==
    IF i <= 0 THEN d
    ELSE fisherYates(swap(d, i, shuffleDraw(seed, i)), i - 1, seed)

createDeck(seed) == fisherYates(freshDeck, 51, seed)

\* deck.pop() hands out the deck from its end, one card per seat in turn
deal(seed) ==
    LET d == createDeck(seed)
    IN  [p \in Seats |->
            sortHand([j \in 1 .. HAND_SIZE |-> d[52 - (PLAYERS_COUNT * (j - 1) + p)]])]

-----------------------------------------------------------------------------
(* GameState: getValidMoves, evaluateTrick *)

isLeekhaCard(c) == c = QueenOfSpades \/ c = TenOfDiamonds

\* getValidMoves without the forced-penalty filter
getValidMovesNoForcedLeekha(h, t) ==
    IF Len(t) = 0 THEN h
    ELSE LET matchingSuitCards == SelectSeq(h, LAMBDA c : Suit(c) = Suit(t[1].card))
         IN  IF Len(matchingSuitCards) > 0 THEN matchingSuitCards ELSE h

\* t is GameState.trick at the time of the call
getValidMoves(h, t) ==
    IF Len(t) = 0 THEN h
    ELSE LET leadSuit == Suit(t[1].card)
             matchingSuitCards == SelectSeq(h, LAMBDA c : Suit(c) = leadSuit)
             leekhaCards == SelectSeq(h, isLeekhaCard)
         IN  IF Len(matchingSuitCards) > 0 THEN matchingSuitCards
             ELSE IF Len(leekhaCards) > 0 THEN leekhaCards
             ELSE h

\* the loop of evaluateTrick without the test of the lead suit
RECURSIVE evaluateLoopAnySuit(_, _, _, _, _)
evaluateLoopAnySuit(t, leadSuit, idx, highest, winnerLocalIndex) ==
    IF idx > Len(t) THEN winnerLocalIndex
    ELSE IF Value(t[idx].card) > highest
         THEN evaluateLoopAnySuit(t, leadSuit, idx + 1, Value(t[idx].card), idx)
         ELSE evaluateLoopAnySuit(t, leadSuit, idx + 1, highest, winnerLocalIndex)

\* the forEach of evaluateTrick from position idx on: the local index of the
\* winner so far is winnerLocalIndex (0 when nobody has qualified yet)
RECURSIVE evaluateLoop(_, _, _, _, _)
evaluateLoop(t, leadSuit, idx, highest, winnerLocalIndex) ==
    IF idx > Len(t) THEN winnerLocalIndex
    ELSE IF Suit(t[idx].card) = leadSuit /\ Value(t[idx].card) > highest
         THEN evaluateLoop(t, leadSuit, idx + 1, Value(t[idx].card), idx)
         ELSE evaluateLoop(t, leadSuit, idx + 1, highest, winnerLocalIndex)

evaluateTrick(t, leadSuit) ==
    LET found == evaluateLoop(t, leadSuit, 1, -1, 0)
        winnerLocalIndex == IF found = 0 THEN 1 ELSE found
    IN  t[winnerLocalIndex].player

trickPoints(t) == SumSeq([k \in 1 .. Len(t) |-> points(t[k].card)])

-----------------------------------------------------------------------------
(* CardTracker *)

trackerReset ==
    [playedCards |-> {},
     playerVoids |-> [p \in Seats |-> {}],
     heartsBroken |-> FALSE,
     queenOfSpadesPlayed |-> FALSE,
     tenOfDiamondsPlayed |-> FALSE,
     tricksPlayed |-> 0,
     firstTrickRevealedVoid |-> NoVoidRevealed]

\* a tracker that noted the first void of the round in whatever trick it came
recordCardPlayedInAnyTrick(tr, card, playerIndex, t) ==
    LET offLead == Len(t) > 0 /\ Suit(card) # Suit(t[1].card)
    IN  [playedCards |-> tr.playedCards \cup {card},
         playerVoids |->
             IF offLead
             THEN [tr.playerVoids EXCEPT ![playerIndex] = @ \cup {Suit(t[1].card)}]
             ELSE tr.playerVoids,
         heartsBroken |-> tr.heartsBroken \/ Suit(card) = SuitH,
         queenOfSpadesPlayed |-> tr.queenOfSpadesPlayed \/ card = QueenOfSpades,
         tenOfDiamondsPlayed |-> tr.tenOfDiamondsPlayed \/ card = TenOfDiamonds,
         tricksPlayed |-> tr.tricksPlayed,
         firstTrickRevealedVoid |->
             IF offLead /\ tr.firstTrickRevealedVoid = NoVoidRevealed
             THEN Len(t)
             ELSE tr.firstTrickRevealedVoid]

\* t is the trick before the card was added (this.trick.slice(0, -1))
recordCardPlayed(tr, card, playerIndex, t) ==
    LET offLead == Len(t) > 0 /\ Suit(card) # Suit(t[1].card)
    IN  [playedCards |-> tr.playedCards \cup {card},
         playerVoids |->
             IF offLead
             THEN [tr.playerVoids EXCEPT ![playerIndex] = @ \cup {Suit(t[1].card)}]
             ELSE tr.playerVoids,
         heartsBroken |-> tr.heartsBroken \/ Suit(card) = SuitH,
         queenOfSpadesPlayed |-> tr.queenOfSpadesPlayed \/ card = QueenOfSpades,
         tenOfDiamondsPlayed |-> tr.tenOfDiamondsPlayed \/ card = TenOfDiamonds,
         tricksPlayed |-> tr.tricksPlayed,
         firstTrickRevealedVoid |->
             IF offLead /\ tr.tricksPlayed = 0 /\ tr.firstTrickRevealedVoid = NoVoidRevealed
             THEN Len(t)
             ELSE tr.firstTrickRevealedVoid]

endTrick(tr) == [tr EXCEPT !.tricksPlayed = @ + 1]

-----------------------------------------------------------------------------
(* The seats.  A seat is any object with choosePassCards and playCard      *)
(* (GameState.initialize checks nothing else); its strategy fixes how it   *)
(* answers.  "fallback" is what HumanPlayer, BotPlayer and BotAdapter do   *)
(* when their input or bot fails: pass the three highest cards, play the   *)
(* first legal card.                                                       *)

StrategyKinds == {"fallback", "high", "offsuit", "absent", "silent", "throws", "dupPass"}

\* what choosePassCards resolves to: three cards of the hand; BotAdapter
\* converts the bot's tokens one by one and does not compare them, so a bot
\* that names a card twice passes it twice
passSelection(kind, h) ==
    IF Len(h) < PASS_CARDS_COUNT THEN slice3(h)
    ELSE IF kind = "dupPass" THEN <<h[Len(h)], h[Len(h)], h[Len(h) - 1]>>
    ELSE IF kind = "high" THEN slice3(h)
    ELSE highestThree(h)

NothingAnswer == [kind |-> "nothing", card |-> NULL]
ThrowAnswer == [kind |-> "throws", card |-> NULL]
CardAnswer(c) == [kind |-> "card", card |-> c]

\* some card object that is not in the hand
absentCard(h) == CHOOSE c \in Cards : c \notin Range(h) /\ \A d \in Cards : d \notin Range(h) => c <= d

\* what playCard settles to; an empty list of moves has no first element
playAnswer(kind, h, t) ==
    LET validMoves == getValidMoves(h, t)
    IN  CASE kind = "throws" -> ThrowAnswer
          [] kind = "silent" -> NothingAnswer
          [] kind = "absent" -> CardAnswer(absentCard(h))
          [] kind = "offsuit" -> IF Len(h) > 0 THEN CardAnswer(Last(h)) ELSE NothingAnswer
          [] kind = "high" -> IF Len(validMoves) > 0 THEN CardAnswer(Last(validMoves)) ELSE NothingAnswer
          [] OTHER -> IF Len(validMoves) > 0 THEN CardAnswer(validMoves[1]) ELSE NothingAnswer

\* playTrick lines 1021-1045: the card playTrick goes on with (NULL for undefined)
cardToCommit(ans, h, t) ==
    LET card == IF ans.kind = "card" THEN ans.card ELSE NULL
        legalMoves == getValidMoves(h, t)
    IN  IF card = NULL \/ card \notin Range(h)
        THEN IF Len(legalMoves) > 0 THEN legalMoves[1] ELSE card
        ELSE card

-----------------------------------------------------------------------------
(* Math.random.  A stream fixes every draw of a run: the dealer drawn by   *)
(* startNewGame, the leader drawn in round 1 and, per round, the seed of   *)
(* the shuffle's draws.                                                    *)

RngStreams ==
    << [dealer |-> 2, leader |-> 0, seeds |-> <<162, 223, 312, 566>>],
       [dealer |-> 1, leader |-> 3, seeds |-> <<379, 41, 1728, 7>>],
       [dealer |-> 3, leader |-> 2, seeds |-> <<259, 1542, 450, 363>>],
       [dealer |-> 0, leader |-> 1, seeds |-> <<5, 267, 366, 559>>] >>

roundSeed(stream, n) == RngStreams[stream].seeds[((n - 1) % Len(RngStreams[stream].seeds)) + 1]

-----------------------------------------------------------------------------
(* State after construction *)

NoChoice == <<NULL>>

NoPlay ==
    [seat |-> NULL, kind |-> "none", answered |-> NULL, handBefore |-> <<>>,
     validBefore |-> <<>>, position |-> 0, lead |-> NULL, committed |-> NULL,
     threw |-> FALSE]

NoEnd ==
    [limitReached |-> FALSE, gameOver |-> FALSE, next |-> "none", loser |-> NULL,
     scores |-> <<>>, queenTricks |-> <<>>, dealerBefore |-> NULL, log |-> <<>>, tricksPlayed |-> 0]

Profiles ==
    {f \in [Seats -> StrategyKinds] : Cardinality({p \in Seats : f[p] # "fallback"}) <= MaxDeviants}

Simulations ==
    {[enabled |-> FALSE, target |-> 0, completed |-> 0]}
        \cup {[enabled |-> TRUE, target |-> n, completed |-> 0] : n \in 1 .. MaxSimGames}

\* the GameEventEmitter as its constructor leaves it: this.listeners = new Map()
NoListeners == [listeners |-> <<>>, handlers |-> <<>>, calls |-> <<>>, emits |-> 0]

\* the GameState, its event emitter and its players as their constructors leave them
constructed ==
    /\ pc = "constructed"
    /\ emitter = NoListeners
    /\ hand = [p \in Seats |-> <<>>]
    /\ score = [p \in Seats |-> 0]
    /\ currentRoundPoints = [p \in Seats |-> 0]
    /\ trick = <<>>
    /\ roundNumber = 0
    /\ dealerIndex = 0
    /\ queenOfSpadesCapturedBy = NULL
    /\ cardTracker = trackerReset
    /\ initialHands = <<>>
    /\ choices = [p \in Seats |-> NoChoice]
    /\ leader = 0
    /\ trickNum = 0
    /\ winnerIndex = 0
    /\ roundsStarted = 0
    /\ dealt = [p \in Seats |-> <<>>]
    /\ passOrder = <<>>
    /\ lastPlay = NoPlay
    /\ lastEnd = NoEnd
    /\ position = 0
    /\ suitLed = NULL
    /\ suspended = <<>>
    /\ resumptions = 0
    /\ roundLog = <<>>
    /\ queenTricks = <<>>

NoOut == [op |-> "none", handBefore |-> <<>>, moves |-> <<>>, winner |-> NULL]

noRuleCall ==
    /\ argHand = <<>>
    /\ argTrick = <<>>
    /\ ruleOut = NoOut

NullMoves == <<NULL>>

IdleController ==
    [state |-> "idle", pendingPlay |-> 0, pendingPass |-> 0, validMoves |-> NullMoves,
     timeout |-> 0]

NoCall == [op |-> "none", before |-> IdleController, timersBefore |-> {}, promise |-> 0,
           events |-> <<>>]

\* the DOMInputController as its constructor leaves it; nobody asked yet
controllerConstructed ==
    /\ ctl = IdleController
    /\ promises = <<>>
    /\ timers = {}
    /\ human = [phase |-> "idle", promise |-> 0, result |-> <<>>]
    /\ lastCall = NoCall

\* a player list entry, by what initialize looks at: null is the entry that is
\* null or undefined, name is "string", "blank" (empty after trim) or "other"
playerEntry(isNull, name, hasPlayCard, hasChoosePassCards, hasHand) ==
    [isNull |-> isNull, name |-> name, playCard |-> hasPlayCard,
     choosePassCards |-> hasChoosePassCards, hand |-> hasHand]

aPlayer == playerEntry(FALSE, "string", TRUE, TRUE, TRUE)

\* the four players build.ts and simulate.js make, as the array they hand over
fourPlayers == [isArray |-> TRUE, entries |-> <<aPlayer, aPlayer, aPlayer, aPlayer>>]

NoInit == [called |-> FALSE, threw |-> FALSE, events |-> <<>>, playersBefore |-> <<>>]

\* the player list is in place and initialize is not under study
seated ==
    /\ players = fourPlayers.entries
    /\ initArg = fourPlayers
    /\ initOut = NoInit

NoBotIn == [method |-> "none"]

NoBotOut == [called |-> FALSE]

\* no BotAdapter or strategy call is under study
noBotCall ==
    /\ botIn = NoBotIn
    /\ botOut = NoBotOut

Init ==
    /\ constructed
    /\ seated
    /\ noBotCall
    /\ rng \in 1 .. NumStreams
    /\ strategy \in Profiles
    /\ simulation \in Simulations
    /\ noRuleCall
    /\ controllerConstructed

-----------------------------------------------------------------------------
(* startRound up to its first await: the reset, deal() and the four        *)
(* choosePassCards calls of handlePassingPhase.  rn is the round number    *)
(* before the increment.                                                   *)

\* a startRound that left the CardTracker as the last round left it
startRoundWithoutReset(rn) ==
    /\ roundNumber' = rn + 1
    /\ cardTracker' = cardTracker
    /\ queenOfSpadesCapturedBy' = NULL
    /\ roundsStarted' = roundsStarted + 1
    /\ hand' = deal(roundSeed(rng, roundsStarted + 1))
    /\ dealt' = hand'
    /\ choices' = [p \in Seats |-> NoChoice]
    /\ passOrder' = <<>>
    /\ roundLog' = <<"deal">>
    /\ queenTricks' = <<>>
    /\ pc' = "passing"

startRound(rn) ==
    /\ roundNumber' = rn + 1
    /\ cardTracker' = trackerReset
    /\ queenOfSpadesCapturedBy' = NULL
    /\ roundsStarted' = roundsStarted + 1
    /\ hand' = deal(roundSeed(rng, roundsStarted + 1))
    /\ dealt' = hand'
    /\ choices' = [p \in Seats |-> NoChoice]
    /\ passOrder' = <<>>
    /\ roundLog' = <<"reset", "deal">>
    /\ queenTricks' = <<>>
    /\ pc' = "passing"

\* startNewGame: scores and round number reset, a random dealer, then startRound()
startNewGame ==
    /\ dealerIndex' = RngStreams[rng].dealer
    /\ score' = [p \in Seats |-> 0]
    /\ currentRoundPoints' = [p \in Seats |-> 0]
    /\ startRound(0)

StartNewGame ==
    /\ pc = "constructed"
    /\ startNewGame
    /\ UNCHANGED <<ruleVars, inputVars, initVars, emitterVars, botVars, initialHands, suspended, resumptions, position, suitLed, rng, strategy,
                   simulation, trick, leader, trickNum, winnerIndex, lastPlay, lastEnd>>

-----------------------------------------------------------------------------
(* handlePassingPhase *)

resolved(p) == choices[p] # NoChoice

\* a Promise.all that kept the values in the order of settlement
settleInArrivalOrder(ch, order, p, selection) == [ch EXCEPT ![Len(order)] = selection]

\* Promise.all keeps a settled value at the index of its promise, which is the
\* seat's index; order is the sequence of seats settled before
settle(ch, order, p, selection) == [ch EXCEPT ![p] = selection]

\* the promise of seat p's choosePassCards settles; the seat was handed its
\* hand when startRound called it, right after the deal
ResolveSelection(p) ==
    /\ pc = "passing"
    /\ ~resolved(p)
    /\ choices' = settle(choices, passOrder, p, passSelection(strategy[p], dealt[p]))
    /\ passOrder' = Append(passOrder, p)
    /\ UNCHANGED <<ruleVars, inputVars, initVars, emitterVars, botVars, initialHands, suspended, resumptions, position, suitLed, roundLog, queenTricks,
                   pc, rng, strategy, simulation, hand, score, currentRoundPoints, trick,
                   roundNumber, dealerIndex, queenOfSpadesCapturedBy, cardTracker, leader,
                   trickNum, winnerIndex, roundsStarted, dealt, lastPlay, lastEnd>>

\* a pass that went round the table the other way
passSourceOpposite(p) == (p + 3) % PLAYERS_COUNT

\* P0 gets from P1, P3 gets from P0, P2 gets from P3, P1 gets from P2
passSource(p) == (p + 1) % PLAYERS_COUNT

exchange(h, ch) ==
    [p \in Seats |-> receiveCards(removeCards(h[p], ch[p]), ch[passSource(p)])]

\* Promise.all has resolved: the rest of handlePassingPhase
PassingComplete ==
    /\ pc = "passing"
    /\ \A p \in Seats : resolved(p)
    /\ hand' = exchange(hand, choices)
    /\ initialHands' = [p \in Seats |-> cardIds(hand'[p])]
    /\ roundLog' = Append(roundLog, "pass")
    /\ pc' = "passed"
    /\ UNCHANGED <<ruleVars, inputVars, initVars, emitterVars, botVars, suspended, resumptions, position, suitLed, queenTricks,
                   rng, strategy, simulation, score, currentRoundPoints, trick, roundNumber,
                   dealerIndex, queenOfSpadesCapturedBy, cardTracker, choices, leader,
                   trickNum, winnerIndex, roundsStarted, dealt, passOrder, lastPlay, lastEnd>>

\* startRound resumes: the leader is chosen and the first playTrick runs up
\* to its first await
BeginPlay ==
    /\ pc = "passed"
    /\ leader' = IF roundNumber = 1 THEN RngStreams[rng].leader
                 ELSE (dealerIndex + 1) % PLAYERS_COUNT
    /\ trickNum' = 0
    /\ trick' = <<>>
    /\ position' = 0
    /\ suitLed' = NULL
    /\ roundLog' = Append(roundLog, "trick")
    /\ choices' = [p \in Seats |-> NoChoice]
    /\ passOrder' = <<>>
    /\ pc' = "awaitCard"
    /\ UNCHANGED <<ruleVars, inputVars, initVars, emitterVars, botVars, initialHands, suspended, resumptions, queenTricks,
                   rng, strategy, simulation, hand, score, currentRoundPoints, roundNumber,
                   dealerIndex, queenOfSpadesCapturedBy, cardTracker, winnerIndex,
                   roundsStarted, dealt, lastPlay, lastEnd>>

-----------------------------------------------------------------------------
(* playTrick *)

\* a rotation that counted the seats the other way round
currentPlayerIndexClockwise == (leader + 3 * position) % PLAYERS_COUNT

\* currentPlayerIndex at position i of the loop: leaderIndex stepped i times by (+ 1) % 4
currentPlayerIndex == (leader + position) % PLAYERS_COUNT

\* the seat's playCard settles and the loop body runs to the next await.
\* With no card to go on with, removeCards([undefined]) throws out of playTrick.
PlayCard ==
    /\ pc = "awaitCard"
    /\ LET p == currentPlayerIndex
           ans == playAnswer(strategy[p], hand[p], trick)
           card == cardToCommit(ans, hand[p], trick)
           seen == [seat |-> p, kind |-> ans.kind, answered |-> ans.card,
                    handBefore |-> hand[p], validBefore |-> getValidMoves(hand[p], trick),
                    position |-> position,
                    lead |-> IF Len(trick) > 0 THEN trick[1].card ELSE NULL,
                    committed |-> card, threw |-> card = NULL]
       IN  /\ lastPlay' = seen
           /\ IF card = NULL
              THEN /\ pc' = "crashed"
                   /\ UNCHANGED <<hand, trick, cardTracker, winnerIndex, position, suitLed>>
              ELSE /\ hand' = [hand EXCEPT ![p] = removeCards(@, <<card>>)]
                   /\ trick' = Append(trick, [player |-> p, card |-> card])
                   /\ cardTracker' = recordCardPlayed(cardTracker, card, p, trick)
                   /\ suitLed' = IF position = 0 THEN Suit(card) ELSE suitLed
                   /\ position' = position + 1
                   /\ IF position' = PLAYERS_COUNT
                      THEN /\ winnerIndex' = evaluateTrick(trick', suitLed')
                           /\ pc' = "display"
                      ELSE /\ pc' = "awaitCard"
                           /\ UNCHANGED winnerIndex
    /\ UNCHANGED <<ruleVars, inputVars, initVars, emitterVars, botVars, initialHands, suspended, resumptions, roundLog, queenTricks,
                   rng, strategy, simulation, score, currentRoundPoints, roundNumber,
                   dealerIndex, queenOfSpadesCapturedBy, choices, leader, trickNum,
                   roundsStarted, dealt, passOrder, lastEnd>>

\* after TRICK_DISPLAY_DELAY: the trick's points go to the winner
TrickDisplayed ==
    /\ pc = "display"
    /\ currentRoundPoints' = [currentRoundPoints EXCEPT ![winnerIndex] = @ + trickPoints(trick)]
    /\ queenOfSpadesCapturedBy' =
           IF \E k \in 1 .. Len(trick) : trick[k].card = QueenOfSpades
           THEN winnerIndex ELSE queenOfSpadesCapturedBy
    /\ queenTricks' =
           IF \E k \in 1 .. Len(trick) : trick[k].card = QueenOfSpades
           THEN Append(queenTricks, evaluateTrick(trick, suitLed)) ELSE queenTricks
    /\ pc' = "collect"
    /\ UNCHANGED <<ruleVars, inputVars, initVars, emitterVars, botVars, initialHands, suspended, resumptions, position, suitLed, roundLog,
                   rng, strategy, simulation, hand, score, trick, roundNumber, dealerIndex,
                   cardTracker, choices, leader, trickNum, winnerIndex, roundsStarted, dealt,
                   passOrder, lastPlay, lastEnd>>

\* a trick loop in which the lead goes to the next seat, whoever won
TrickCollectedLeadPassingOn ==
    /\ pc = "collect"
    /\ cardTracker' = endTrick(cardTracker)
    /\ leader' = (leader + 1) % PLAYERS_COUNT
    /\ trickNum' = trickNum + 1
    /\ IF trickNum' < TRICKS_PER_ROUND
       THEN /\ trick' = <<>>
            /\ position' = 0
            /\ suitLed' = NULL
            /\ roundLog' = Append(roundLog, "trick")
            /\ pc' = "awaitCard"
       ELSE /\ pc' = "roundEnd"
            /\ UNCHANGED <<trick, position, suitLed, roundLog>>
    /\ UNCHANGED <<ruleVars, inputVars, initVars, emitterVars, botVars, initialHands, suspended, resumptions, queenTricks,
                   rng, strategy, simulation, hand, score, currentRoundPoints, roundNumber,
                   dealerIndex, queenOfSpadesCapturedBy, choices, winnerIndex, roundsStarted,
                   dealt, passOrder, lastPlay, lastEnd>>

\* after TRICK_COLLECTION_DELAY: endTrick, the winner leads the next trick;
\* after the 13th trick startRound calls endRound, which waits ROUND_END_DELAY
TrickCollected ==
    /\ pc = "collect"
    /\ cardTracker' = endTrick(cardTracker)
    /\ leader' = winnerIndex
    /\ trickNum' = trickNum + 1
    /\ IF trickNum' < TRICKS_PER_ROUND
       THEN /\ trick' = <<>>
            /\ position' = 0
            /\ suitLed' = NULL
            /\ roundLog' = Append(roundLog, "trick")
            /\ pc' = "awaitCard"
       ELSE /\ pc' = "roundEnd"
            /\ UNCHANGED <<trick, position, suitLed, roundLog>>
    /\ UNCHANGED <<ruleVars, inputVars, initVars, emitterVars, botVars, initialHands, suspended, resumptions, queenTricks,
                   rng, strategy, simulation, hand, score, currentRoundPoints, roundNumber,
                   dealerIndex, queenOfSpadesCapturedBy, choices, winnerIndex, roundsStarted,
                   dealt, passOrder, lastPlay, lastEnd>>

-----------------------------------------------------------------------------
(* endRound, handleGameOver *)

roundVars == <<roundNumber, cardTracker, queenOfSpadesCapturedBy, roundsStarted, hand, dealt,
               choices, passOrder, queenTricks>>

seatOrder == <<0, 1, 2, 3>>

\* playersOver.sort((a, b) => b.score - a.score): stable, highest score first
RECURSIVE InsertByScoreDesc(_, _, _)
InsertByScoreDesc(p, s, sc) ==
    IF s = <<>> THEN <<p>>
    ELSE IF sc[Head(s)] >= sc[p] THEN <<Head(s)>> \o InsertByScoreDesc(p, Tail(s), sc)
    ELSE <<p>> \o s

RECURSIVE sortByScoreDesc(_, _)
sortByScoreDesc(s, sc) ==
    IF s = <<>> THEN <<>>
    ELSE InsertByScoreDesc(Last(s), sortByScoreDesc(SubSeq(s, 1, Len(s) - 1), sc), sc)

\* a loser taken from the players over the limit without sorting them
loserPlayerUnsorted(sc) ==
    LET playersOver == SelectSeq(seatOrder, LAMBDA p : sc[p] >= 101)
    IN  IF Len(playersOver) > 0 THEN playersOver[1] ELSE NULL

\* loserPlayer of handleGameOver (NULL for undefined)
loserPlayer(sc) ==
    LET playersOver == sortByScoreDesc(SelectSeq(seatOrder, LAMBDA p : sc[p] >= 101), sc)
    IN  IF Len(playersOver) > 0 THEN playersOver[1] ELSE NULL

\* what an endRound leaves behind for the observer: its decision and the round it closed
ended(limitReached, gameOver, next, loser, newScore) ==
    [limitReached |-> limitReached, gameOver |-> gameOver, next |-> next, loser |-> loser,
     scores |-> newScore, queenTricks |-> queenTricks, dealerBefore |-> dealerIndex,
     log |-> Append(roundLog, "score"), tricksPlayed |-> cardTracker.tricksPlayed]

\* handleGameOver, reached from endRound with the scores already updated
handleGameOver(newScore) ==
    IF simulation.enabled
    THEN /\ simulation' = [simulation EXCEPT !.completed = @ + 1]
         /\ IF simulation'.completed >= simulation.target
            THEN /\ pc' = "simulationDone"
                 /\ score' = newScore
                 /\ currentRoundPoints' = [p \in Seats |-> 0]
                 /\ lastEnd' = ended(TRUE, TRUE, "none", loserPlayer(newScore), newScore)
                 /\ roundLog' = Append(roundLog, "score")
                 /\ UNCHANGED <<dealerIndex, roundVars>>
            ELSE /\ roundsStarted < MaxRounds
                 /\ startNewGame
                 /\ lastEnd' = ended(TRUE, TRUE, "newGame", loserPlayer(newScore), newScore)
    ELSE /\ pc' = "gameOver"
         /\ score' = newScore
         /\ currentRoundPoints' = [p \in Seats |-> 0]
         /\ lastEnd' = ended(TRUE, TRUE, "none", loserPlayer(newScore), newScore)
         /\ roundLog' = Append(roundLog, "score")
         /\ UNCHANGED <<simulation, dealerIndex, roundVars>>

\* a limit test with the comparison turned round
scoreLimitReachedFlipped(newScore) == \E p \in Seats : newScore[p] <= SCORE_LIMIT

\* limitReached of endRound, from the scores after the addition
scoreLimitReached(newScore) == \E p \in Seats : newScore[p] >= SCORE_LIMIT

\* a dealer update that ignored the capture
nextDealerUnchanged(captured, dealer) == dealer

\* endRound: the seat that captured the Queen of Spades becomes the dealer
nextDealer(captured, dealer) == IF captured # NULL THEN captured ELSE dealer

\* endRound after ROUND_END_DELAY
EndRound ==
    /\ pc = "roundEnd"
    /\ LET newScore == [p \in Seats |-> score[p] + currentRoundPoints[p]]
           limitReached == scoreLimitReached(newScore)
       IN  IF limitReached
           THEN handleGameOver(newScore)
           ELSE /\ score' = newScore
                /\ currentRoundPoints' = [p \in Seats |-> 0]
                /\ dealerIndex' = nextDealer(queenOfSpadesCapturedBy, dealerIndex)
                /\ UNCHANGED simulation
                /\ IF simulation.enabled
                   THEN /\ roundsStarted < MaxRounds
                        /\ startRound(roundNumber)
                        /\ lastEnd' = ended(FALSE, FALSE, "round", NULL, newScore)
                   ELSE /\ pc' = "scheduled"
                        /\ lastEnd' = ended(FALSE, FALSE, "scheduled", NULL, newScore)
                        /\ roundLog' = Append(roundLog, "score")
                        /\ UNCHANGED roundVars
    /\ UNCHANGED <<ruleVars, inputVars, initVars, emitterVars, botVars, initialHands, suspended, resumptions, position, suitLed, rng, strategy, trick,
                   leader, trickNum, winnerIndex, lastPlay>>

\* the setTimeout of endRound fires after ROUND_START_DELAY
ScheduledStartRound ==
    /\ pc = "scheduled"
    /\ roundsStarted < MaxRounds
    /\ startRound(roundNumber)
    /\ UNCHANGED <<ruleVars, inputVars, initVars, emitterVars, botVars, initialHands, suspended, resumptions, position, suitLed, rng, strategy,
                   simulation, score, currentRoundPoints, trick, dealerIndex, leader, trickNum,
                   winnerIndex, lastPlay, lastEnd>>

-----------------------------------------------------------------------------

Next ==
    \/ StartNewGame
    \/ \E p \in Seats : ResolveSelection(p)
    \/ PassingComplete
    \/ BeginPlay
    \/ PlayCard
    \/ TrickDisplayed
    \/ TrickCollected
    \/ EndRound
    \/ ScheduledStartRound

Spec == Init /\ [][Next]_vars

-----------------------------------------------------------------------------
(* Claims about the trick loop and the passing phase *)

committedSomething == lastPlay.kind # "none" /\ lastPlay.committed # NULL

holdsSuit(h, suit) == \E c \in Range(h) : Suit(c) = suit

\* C1: every card the trick loop commits was in the seat's hand right before
\* the commit and is one of getValidMoves(hand): of the lead suit whenever the
\* hand held a lead-suit card, and the Queen of Spades or the Ten of Diamonds
\* whenever the hand was void in the lead suit but held one of them -- whatever
\* the seat's playCard produced.
C1_CommittedCardInHandAndLegal ==
    committedSomething =>
        /\ lastPlay.committed \in Range(lastPlay.handBefore)
        /\ lastPlay.committed \in Range(lastPlay.validBefore)
        /\ lastPlay.lead # NULL =>
              /\ holdsSuit(lastPlay.handBefore, Suit(lastPlay.lead))
                    => Suit(lastPlay.committed) = Suit(lastPlay.lead)
              /\ (/\ ~holdsSuit(lastPlay.handBefore, Suit(lastPlay.lead))
                  /\ \E c \in Range(lastPlay.handBefore) : isLeekhaCard(c))
                    => isLeekhaCard(lastPlay.committed)

cardsGone(p) == Range(dealt[p]) \ Range(hand[p])
cardsReceived(p) == Range(hand[p]) \ Range(dealt[p])
copiesHeld(c) == Cardinality({<<p, k>> \in Seats \X (1 .. 16) : k <= Len(hand[p]) /\ hand[p][k] = c})

\* C2: whatever the four seats select, each seat ends the passing phase with
\* exactly 13 cards, exactly 3 of its dealt cards gone and exactly 3 cards
\* received that another seat was dealt, and no card is duplicated or lost.
C2_PassingIsBijection ==
    pc = "passed" =>
        /\ \A p \in Seats :
              /\ Len(hand[p]) = 13
              /\ Cardinality(cardsGone(p)) = 3
              /\ Cardinality(cardsReceived(p)) = 3
              /\ \A c \in cardsReceived(p) : \E q \in Seats \ {p} : c \in Range(dealt[q])
        /\ \A c \in Cards : copiesHeld(c) = 1

thirteenthTrickResolved ==
    \/ pc = "collect" /\ trickNum = 12
    \/ pc = "roundEnd"

\* C3: once the 13th trick of a round has been resolved, and before the
\* round-end scoring resets them, the four seats' round points sum to 36.
C3_RoundPointsSumTo36 ==
    thirteenthTrickResolved => SumOver(currentRoundPoints) = 36

playCardFailed ==
    /\ lastPlay.kind # "none"
    /\ \/ lastPlay.kind \in {"throws", "nothing"}
       \/ lastPlay.kind = "card" /\ lastPlay.answered \notin Range(lastPlay.handBefore)

\* C6: when a seat's playCard throws, or returns nothing or a card that is not
\* in its hand, the trick loop does not throw and commits the first element of
\* getValidMoves(hand) for that seat.
C6_FailedPlayFallsBackToFirstLegal ==
    playCardFailed =>
        /\ ~lastPlay.threw
        /\ pc # "crashed"
        /\ Len(lastPlay.validBefore) > 0
        /\ lastPlay.committed = lastPlay.validBefore[1]

selectionOf(p) == passSelection(strategy[p], dealt[p])

handAfterPass(p) ==
    sortHand(SelectSeq(dealt[p], LAMBDA c : c \notin Range(selectionOf(p)))
                \o selectionOf((p + 1) % 4))

\* C7: in the passing phase no hand changes until all four selections have
\* resolved, and the hands after the phase are a function of the four
\* selections alone, whatever the order in which they resolved.
C7_PassAppliedOnlyWhenAllResolved ==
    /\ pc = "passing" => hand = dealt
    /\ pc = "passed" => \A p \in Seats : hand[p] = handAfterPass(p)

\* a pass applied after the seats resolved in an order that is not the seat order
C7_Witness ==
    /\ pc = "passed"
    /\ passOrder = <<3, 1, 0, 2>>
    /\ \A p \in Seats : hand[p] # dealt[p] /\ hand[p] = handAfterPass(p)

roundInProgress == pc \in {"passing", "passed", "awaitCard", "display", "collect", "roundEnd"}

someScoreAtLimit == \E p \in Seats : score[p] >= 101

\* C10: after a round's points are added to the scores the game is over exactly
\* when some cumulative score is at least 101, and otherwise a new round is
\* started; the game is never over while a round is in progress, and outside
\* simulation mode no round starts once the game is over.
C10_GameOverIffLimitReached ==
    /\ pc \in {"gameOver", "simulationDone"} =>
          /\ someScoreAtLimit
          /\ lastEnd.gameOver
          /\ cardTracker.tricksPlayed = 13
          /\ \A p \in Seats : currentRoundPoints[p] = 0
    /\ pc = "scheduled" => ~someScoreAtLimit /\ lastEnd.next = "scheduled"
    /\ roundInProgress => ~someScoreAtLimit
    /\ (~simulation.enabled /\ someScoreAtLimit) => pc = "gameOver"
    /\ (simulation.enabled /\ roundNumber > 1 /\ pc = "passing") =>
          lastEnd.next \in {"round", "newGame"}

\* the game is over after the third round, with one seat at 101 or more
C10_Witness ==
    /\ pc = "gameOver"
    /\ roundNumber = 3
    /\ \E p \in Seats : score[p] >= 101 /\ \A q \in Seats \ {p} : score[q] < 101

firstTrickOfRound == pc \in {"awaitCard", "display", "collect"} /\ trickNum = 0

roundFollowsCapture ==
    /\ lastEnd # NoEnd
    /\ ~lastEnd.gameOver
    /\ lastEnd.queenTricks # <<>>

\* C12: if seat s won the trick that held the Queen of Spades in round N and
\* the game is not over after round N, then seat s is the dealer of round N+1
\* and the first trick of round N+1 is led by seat (s + 1) mod 4.
C12_QueenCapturerDealsNextRound ==
    roundFollowsCapture =>
        LET s == Last(lastEnd.queenTricks)
        IN  /\ \A k \in 1 .. Len(lastEnd.queenTricks) : lastEnd.queenTricks[k] = s
            /\ dealerIndex = s
            /\ firstTrickOfRound =>
                  /\ leader = (s + 1) % 4
                  /\ Len(trick) > 0 => trick[1].player = (s + 1) % 4

\* round 2 is led by the seat after the capturer, who was not the dealer of round 1
C12_Witness ==
    /\ roundFollowsCapture
    /\ roundNumber = 2
    /\ firstTrickOfRound
    /\ Len(trick) = 1
    /\ Last(lastEnd.queenTricks) # lastEnd.dealerBefore
    /\ dealerIndex = Last(lastEnd.queenTricks)
    /\ trick[1].player = (dealerIndex + 1) % 4

IsPrefix(a, b) == Len(a) <= Len(b) /\ a = SubSeq(b, 1, Len(a))

tricksStarted(n) == [k \in 1 .. n |-> "trick"]

phasesOfARound == <<"reset", "deal", "pass">> \o tricksStarted(13) \o <<"score">>

\* C13: every round performs, in this order and each exactly once, the reset
\* of the CardTracker, the deal, one passing phase, then exactly 13 tricks,
\* then the round-end scoring; no trick starts before the pass has completed
\* and no scoring happens before the 13th trick has resolved.
C13_RoundPhasesInOrder ==
    /\ IsPrefix(roundLog, phasesOfARound)
    /\ pc = "passing" =>
          /\ roundLog = <<"reset", "deal">>
          /\ cardTracker = trackerReset
    /\ pc = "passed" => roundLog = <<"reset", "deal", "pass">>
    /\ pc \in {"awaitCard", "display", "collect"} =>
          /\ roundLog = <<"reset", "deal", "pass">> \o tricksStarted(trickNum + 1)
          /\ cardTracker.tricksPlayed = trickNum
          /\ trickNum < 13
    /\ pc = "roundEnd" =>
          /\ roundLog = <<"reset", "deal", "pass">> \o tricksStarted(13)
          /\ cardTracker.tricksPlayed = 13
    /\ pc \in {"scheduled", "gameOver", "simulationDone"} => roundLog = phasesOfARound
    /\ lastEnd # NoEnd =>
          /\ lastEnd.log = phasesOfARound
          /\ lastEnd.tricksPlayed = 13

\* the second round has been scored after its 13 tricks and the third is scheduled
C13_Witness ==
    /\ pc = "scheduled"
    /\ roundNumber = 2
    /\ roundLog = phasesOfARound
    /\ lastEnd.log = phasesOfARound
    /\ cardTracker.tricksPlayed = 13

trickInProgress == pc \in {"awaitCard", "display", "collect"}

seatsOfTrick == {trick[k].player : k \in 1 .. Len(trick)}

\* C14: every trick consists of exactly 4 plays by 4 distinct seats in the
\* order leader, leader+1, leader+2, leader+3 (mod 4), and a seat is asked for
\* its card only after the previous seat's card has been removed from its
\* hand, appended to the trick and recorded by the CardTracker.
C14_FourPlaysInRotation ==
    /\ trickInProgress =>
          /\ Len(trick) = position
          /\ \A k \in 1 .. Len(trick) : trick[k].player = (leader + k - 1) % 4
          /\ Cardinality(seatsOfTrick) = Len(trick)
          /\ pc = "awaitCard" => Len(trick) < 4
          /\ pc \in {"display", "collect"} => Len(trick) = 4 /\ seatsOfTrick = Seats
          /\ (pc = "awaitCard" /\ Len(trick) > 0) =>
                /\ lastPlay.seat = Last(trick).player
                /\ lastPlay.committed = Last(trick).card
                /\ (leader + Len(trick)) % 4 = (lastPlay.seat + 1) % 4
                /\ lastPlay.committed \notin Range(hand[lastPlay.seat])
                /\ lastPlay.committed \in cardTracker.playedCards
    /\ pc = "roundEnd" => Len(trick) = 4 /\ seatsOfTrick = Seats

\* the fourth seat of the 13th trick is about to be asked, after three plays in rotation
C14_Witness ==
    /\ pc = "awaitCard"
    /\ trickNum = 12
    /\ Len(trick) = 3
    /\ leader = 2
    /\ <<trick[1].player, trick[2].player, trick[3].player>> = <<2, 3, 0>>
    /\ lastPlay.seat = 0
    /\ lastPlay.committed \in cardTracker.playedCards

afterThePass == pc \in {"passed", "awaitCard", "display", "collect", "roundEnd"}

\* C15: at every point of a round outside the passing phase, from the end of
\* the pass to the end of the round, every seat's hand size equals 13 minus
\* the number of tricks played so far in the round (the CardTracker's
\* tricksPlayed).
C15_HandSizeIs13MinusTricksPlayed ==
    afterThePass => \A p \in Seats : Len(hand[p]) = 13 - cardTracker.tricksPlayed

deckOfRound == createDeck(roundSeed(rng, roundsStarted))

\* C16: at the start of every round the deck built for dealing contains
\* exactly 52 cards with pairwise distinct (suit, rank); after dealing each of
\* the four seats holds exactly 13 of them, the deck is empty (each of its 52
\* cards is in a hand) and no card is in two hands.
C16_DeckOf52DealtInThirteens ==
    pc = "passing" =>
        LET deck == deckOfRound
            dealtCards == UNION {Range(hand[p]) : p \in Seats}
        IN  /\ Len(deck) = 52
            /\ Cardinality({<<Suit(deck[k]), Value(deck[k])>> : k \in 1 .. 52}) = 52
            /\ \A k \in 1 .. 52 : Suit(deck[k]) \in Suits /\ Value(deck[k]) \in 0 .. 12
            /\ \A p \in Seats : Len(hand[p]) = 13 /\ Cardinality(Range(hand[p])) = 13
            /\ \A p, q \in Seats : p # q => Range(hand[p]) \cap Range(hand[q]) = {}
            /\ dealtCards = Range(deck)

\* the third round's deal: a shuffled deck, four hands of 13, none the hand of an unshuffled deal
C16_Witness ==
    /\ pc = "passing"
    /\ roundsStarted = 3
    /\ deckOfRound # freshDeck
    /\ \A p \in Seats : Len(hand[p]) = 13 /\ \E c \in Range(hand[p]) : c % 4 # (3 - p)
    /\ UNION {Range(hand[p]) : p \in Seats} = Cards

receiverOf == (0 :> 3) @@ (3 :> 2) @@ (2 :> 1) @@ (1 :> 0)

\* C17: after the passing phase the 3 cards selected by seat 0 are in seat 3's
\* hand, those selected by seat 3 are in seat 2's hand, those selected by seat
\* 2 are in seat 1's hand and those selected by seat 1 are in seat 0's hand,
\* and in no other hand.
C17_PassGoesToTheFixedReceiver ==
    pc = "passed" =>
        \A p \in Seats :
            /\ Len(choices[p]) = 3
            /\ \A c \in Range(choices[p]) :
                  /\ c \in Range(hand[receiverOf[p]])
                  /\ \A q \in Seats \ {receiverOf[p]} : c \notin Range(hand[q])

\* four selections of three different cards each have changed hands
C17_Witness ==
    /\ pc = "passed"
    /\ \A p \in Seats :
          /\ Cardinality(Range(choices[p])) = 3
          /\ Range(choices[p]) \subseteq Range(dealt[p])
          /\ Range(choices[p]) \subseteq Range(hand[receiverOf[p]])
          /\ Range(choices[p]) \cap Range(hand[p]) = {}

-----------------------------------------------------------------------------
(* startNewGame called again.  It is a public method (build.ts and         *)
(* simulate.js call it, build.ts also publishes the GameState as           *)
(* window.game) and nothing in it looks at the round in progress.  Each    *)
(* startRound call is a loop of its own with its own locals; the loops     *)
(* share the GameState.  One loop runs at a time: the variables pc,        *)
(* leader, trickNum, winnerIndex, choices, passOrder, position, suitLed    *)
(* and dealt are those of the loop that runs next, the others wait in      *)
(* suspended.                                                              *)

loopLocals ==
    [pc |-> pc, leader |-> leader, trickNum |-> trickNum, winnerIndex |-> winnerIndex,
     choices |-> choices, passOrder |-> passOrder, position |-> position,
     suitLed |-> suitLed, dealt |-> dealt]

\* a loop, or the timer of endRound, that has something left to do
waiting(l) == l.pc \in {"passing", "passed", "awaitCard", "display", "collect", "roundEnd",
                        "scheduled"}

without(seq, k) == [j \in 1 .. (Len(seq) - 1) |-> IF j < k THEN seq[j] ELSE seq[j + 1]]

\* the player in front of the page is the first of the list
humanSeat == 0

\* the running loop waits for the human seat's pass selection or card
humanToAct ==
    \/ pc = "passing" /\ ~resolved(humanSeat)
    \/ pc = "awaitCard" /\ currentPlayerIndex = humanSeat

\* startNewGame() called from outside while the table waits for the human seat
RestartGame ==
    /\ humanToAct
    /\ roundsStarted <= LastRestartRound
    /\ roundsStarted < MaxRounds
    /\ IF waiting(loopLocals)
       THEN /\ Len(suspended) < MaxOverlap
            /\ suspended' = Append(suspended, loopLocals)
       ELSE UNCHANGED suspended
    /\ startNewGame
    /\ UNCHANGED <<ruleVars, inputVars, initVars, emitterVars, botVars, initialHands, resumptions, position, suitLed, rng, strategy,
                   simulation, trick, leader, trickNum, winnerIndex, lastPlay, lastEnd>>

\* the event loop goes on with another loop than the one that ran last
ResumeOther(k) ==
    /\ k \in 1 .. Len(suspended)
    /\ resumptions < MaxResumptions
    /\ resumptions' = resumptions + 1
    /\ pc' = suspended[k].pc
    /\ leader' = suspended[k].leader
    /\ trickNum' = suspended[k].trickNum
    /\ winnerIndex' = suspended[k].winnerIndex
    /\ choices' = suspended[k].choices
    /\ passOrder' = suspended[k].passOrder
    /\ position' = suspended[k].position
    /\ suitLed' = suspended[k].suitLed
    /\ dealt' = suspended[k].dealt
    /\ suspended' = IF waiting(loopLocals) THEN [suspended EXCEPT ![k] = loopLocals]
                    ELSE without(suspended, k)
    /\ UNCHANGED <<ruleVars, inputVars, initVars, emitterVars, botVars, initialHands, rng, strategy, simulation, hand, score,
                   currentRoundPoints, trick, roundNumber, dealerIndex, queenOfSpadesCapturedBy,
                   cardTracker, roundsStarted, lastPlay, lastEnd, roundLog, queenTricks>>

InitReentrant ==
    /\ constructed
    /\ seated
    /\ noBotCall
    /\ rng = 1
    /\ strategy = [p \in Seats |-> "fallback"]
    /\ simulation = [enabled |-> FALSE, target |-> 0, completed |-> 0]
    /\ noRuleCall
    /\ controllerConstructed

NextReentrant ==
    \/ Next
    \/ RestartGame
    \/ \E k \in 1 .. MaxOverlap : ResumeOther(k)

SpecReentrant == InitReentrant /\ [][NextReentrant]_vars

inProgress(l) == l.pc \in {"passing", "passed", "awaitCard", "display", "collect", "roundEnd"}

loopsInProgress ==
    (IF inProgress(loopLocals) THEN 1 ELSE 0)
        + Cardinality({k \in 1 .. Len(suspended) : inProgress(suspended[k])})

\* C18: on one GameState at most one round (one startRound play loop) is in
\* progress at any time, for any sequence of startNewGame calls, round
\* completions and scheduled next-round starts.
C18_OneRoundInProgress == loopsInProgress <= 1

-----------------------------------------------------------------------------
(* Round-end scoring on its own: endRound applied at the end of the 13th   *)
(* trick of a later round, for cumulative scores and round points drawn    *)
(* from small sets.  The scores are below the limit (the game went on) and *)
(* a multiple of 36 in sum (every earlier round gave 36 points); the round *)
(* points are a split of the round's 36: the Queen of Spades (13), the Ten *)
(* of Diamonds (10) and the thirteen hearts.                               *)

PreScoreValues == {0, 72, 88, 90, 92}

RoundPointValues == {0, 10, 13, 18}

PreScores == {sc \in [Seats -> PreScoreValues] : SumOver(sc) % 36 = 0}

PointSplits == {pts \in [Seats -> RoundPointValues] : SumOver(pts) = 36}

\* the last trick of the round, as it lies on the table at endRound
lastTrickPlayed == [k \in 1 .. 4 |-> [player |-> k - 1, card |-> 13 * SuitC + k]]

trackerAtRoundEnd ==
    [playedCards |-> Cards,
     playerVoids |-> [p \in Seats |-> {}],
     heartsBroken |-> TRUE,
     queenOfSpadesPlayed |-> TRUE,
     tenOfDiamondsPlayed |-> TRUE,
     tricksPlayed |-> TRICKS_PER_ROUND,
     firstTrickRevealedVoid |-> NoVoidRevealed]

logBeforeScoring == <<"reset", "deal", "pass">> \o [k \in 1 .. TRICKS_PER_ROUND |-> "trick"]

InitScoring ==
    /\ pc = "roundEnd"
    /\ emitter = NoListeners
    /\ rng = 1
    /\ strategy = [p \in Seats |-> "fallback"]
    /\ simulation \in Simulations
    /\ hand = [p \in Seats |-> <<>>]
    /\ score \in PreScores
    /\ currentRoundPoints \in PointSplits
    /\ trick = lastTrickPlayed
    /\ roundNumber = (SumOver(score) \div 36) + 1
    /\ dealerIndex \in Seats
    /\ queenOfSpadesCapturedBy \in {p \in Seats : currentRoundPoints[p] \in {13, 18}}
    /\ queenTricks = <<queenOfSpadesCapturedBy>>
    /\ cardTracker = trackerAtRoundEnd
    /\ initialHands = <<>>
    /\ choices = [p \in Seats |-> NoChoice]
    /\ leader = 3
    /\ trickNum = TRICKS_PER_ROUND
    /\ winnerIndex = 3
    /\ position = PLAYERS_COUNT
    /\ suitLed = SuitC
    /\ roundsStarted = 1
    /\ dealt = [p \in Seats |-> <<>>]
    /\ passOrder = <<>>
    /\ lastPlay = NoPlay
    /\ lastEnd = NoEnd
    /\ suspended = <<>>
    /\ resumptions = 0
    /\ roundLog = logBeforeScoring
    /\ noRuleCall
    /\ controllerConstructed
    /\ seated
    /\ noBotCall

NextScoring == EndRound

SpecScoring == InitScoring /\ [][NextScoring]_vars

\* C11 as stated: at GameOver the reported loser is a seat whose cumulative
\* score is at or over the limit and strictly higher than the cumulative score
\* of every other seat at or over the limit.
C11_LoserStrictlyHighest ==
    lastEnd.gameOver =>
        /\ lastEnd.loser \in Seats
        /\ lastEnd.scores[lastEnd.loser] >= 101
        /\ \A q \in Seats \ {lastEnd.loser} :
              lastEnd.scores[q] >= 101 => lastEnd.scores[q] < lastEnd.scores[lastEnd.loser]

\* C11, amended: at GameOver the reported loser is a seat whose cumulative
\* score is at or over the limit and at least the cumulative score of every
\* other seat; when several seats share the highest score, the loser is the
\* one with the lowest seat index.
C11_LoserHighestLowestSeatOnTie ==
    lastEnd.gameOver =>
        /\ lastEnd.loser \in Seats
        /\ lastEnd.scores[lastEnd.loser] >= 101
        /\ \A q \in Seats : lastEnd.scores[q] <= lastEnd.scores[lastEnd.loser]
        /\ \A q \in Seats :
              lastEnd.scores[q] = lastEnd.scores[lastEnd.loser] => lastEnd.loser <= q

\* two seats end the game tied at the highest score and the lower seat is reported
C11_WitnessTie ==
    /\ pc = "gameOver"
    /\ lastEnd.gameOver
    /\ \E p, q \in Seats :
          /\ p < q
          /\ score[p] = score[q]
          /\ score[p] >= 101
          /\ \A r \in Seats : score[r] <= score[p]
          /\ lastEnd.loser = p

-----------------------------------------------------------------------------
(* The rules on their own: getValidMoves and evaluateTrick applied to      *)
(* hands and tricks drawn from a small deck with two cards of every suit,  *)
(* both penalty cards among them.                                          *)

RuleCards == {0, 12, QueenOfSpades, 24, 27, TenOfDiamonds, 42, 48}

RECURSIVE SetToSortedSeq(_)
SetToSortedSeq(S) ==
    IF S = {} THEN <<>>
    ELSE LET m == CHOOSE c \in S : \A d \in S : c <= d
         IN  <<m>> \o SetToSortedSeq(S \ {m})

distinctCards(n) ==
    {cs \in [1 .. n -> RuleCards] : \A i, j \in 1 .. n : i # j => cs[i] # cs[j]}

trickOf(ldr, cs) ==
    [k \in 1 .. Len(cs) |-> [player |-> (ldr + k - 1) % PLAYERS_COUNT, card |-> cs[k]]]

RuleTricks ==
    {trickOf(ldr, cs) : ldr \in Seats, cs \in UNION {distinctCards(n) : n \in 0 .. 4}}

trickCards(t) == {t[k].card : k \in 1 .. Len(t)}

\* a seat is asked for a card while the trick is incomplete; its hand holds
\* none of the cards on the table
RuleHands(t) ==
    IF Len(t) = PLAYERS_COUNT THEN {<<>>}
    ELSE {SetToSortedSeq(S) : S \in {T \in SUBSET (RuleCards \ trickCards(t)) :
                                        Cardinality(T) <= MaxRuleHand}}

InitRules ==
    /\ constructed
    /\ rng = 1
    /\ strategy = [p \in Seats |-> "fallback"]
    /\ simulation = [enabled |-> FALSE, target |-> 0, completed |-> 0]
    /\ argTrick \in RuleTricks
    /\ argHand \in RuleHands(argTrick)
    /\ ruleOut = NoOut
    /\ controllerConstructed
    /\ seated
    /\ noBotCall

CallGetValidMoves ==
    /\ ruleOut.op = "none"
    /\ Len(argTrick) < PLAYERS_COUNT
    /\ ruleOut' = [op |-> "getValidMoves", handBefore |-> argHand,
                   moves |-> getValidMoves(argHand, argTrick), winner |-> NULL]
    /\ UNCHANGED <<gameVars, inputVars, initVars, emitterVars, botVars, argHand, argTrick>>

CallEvaluateTrick ==
    /\ ruleOut.op = "none"
    /\ Len(argTrick) = PLAYERS_COUNT
    /\ ruleOut' = [op |-> "evaluateTrick", handBefore |-> argHand, moves |-> <<>>,
                   winner |-> evaluateTrick(argTrick, Suit(argTrick[1].card))]
    /\ UNCHANGED <<gameVars, inputVars, initVars, emitterVars, botVars, argHand, argTrick>>

NextRules ==
    \/ CallGetValidMoves
    \/ CallEvaluateTrick

SpecRules == InitRules /\ [][NextRules]_vars

leadSuitPlays(t) == {k \in 1 .. Len(t) : Suit(t[k].card) = Suit(t[1].card)}

\* C4: the winner evaluateTrick returns for a trick of four plays played a
\* card of the lead suit and no lead-suit card of the trick has a higher rank;
\* when only the leader played the lead suit, the leader wins.
C4_WinnerPlayedHighestOfLeadSuit ==
    ruleOut.op = "evaluateTrick" =>
        /\ \E k \in leadSuitPlays(argTrick) :
              /\ argTrick[k].player = ruleOut.winner
              /\ \A j \in leadSuitPlays(argTrick) :
                    Value(argTrick[j].card) <= Value(argTrick[k].card)
        /\ leadSuitPlays(argTrick) = {1} => ruleOut.winner = argTrick[1].player

\* the leader wins with the lowest card of its suit against higher cards of other suits
C4_WitnessLeaderAlone ==
    /\ ruleOut.op = "evaluateTrick"
    /\ leadSuitPlays(argTrick) = {1}
    /\ \A k \in 2 .. 4 : Value(argTrick[k].card) > Value(argTrick[1].card)
    /\ ruleOut.winner = argTrick[1].player

cardsOfSuit(h, suit) == SelectSeq(h, LAMBDA c : Suit(c) = suit)
penaltyCards(h) == SelectSeq(h, LAMBDA c : c = 23 \/ c = 34)

\* C5: getValidMoves returns the whole hand when the trick is empty; otherwise
\* exactly the hand's lead-suit cards when there is one; otherwise exactly the
\* hand's penalty cards when there is one; otherwise the whole hand.  For a
\* non-empty hand the result is a non-empty subset of the hand, and the hand
\* is as it was before the call.
C5_ValidMovesCharacterised ==
    ruleOut.op = "getValidMoves" =>
        /\ argHand = ruleOut.handBefore
        /\ ruleOut.moves =
              IF Len(argTrick) = 0 THEN argHand
              ELSE IF cardsOfSuit(argHand, Suit(argTrick[1].card)) # <<>>
                   THEN cardsOfSuit(argHand, Suit(argTrick[1].card))
              ELSE IF penaltyCards(argHand) # <<>> THEN penaltyCards(argHand)
              ELSE argHand
        /\ argHand # <<>> => ruleOut.moves # <<>> /\ Range(ruleOut.moves) \subseteq Range(argHand)

\* void in the lead suit with one penalty card and another card: only the penalty card
C5_WitnessForcedPenalty ==
    /\ ruleOut.op = "getValidMoves"
    /\ Len(argTrick) > 0
    /\ Suit(argTrick[1].card) = SuitH
    /\ argHand = <<23, 42, 48>>
    /\ ruleOut.moves = <<23>>

-----------------------------------------------------------------------------
(* DOMInputController and HumanPlayer.playCard.  A promise is a record     *)
(* [kind, status, value]; its id is its index in promises, and the timer   *)
(* armed with it carries the same id.                                      *)

InputCards == {0, 12, QueenOfSpades, TenOfDiamonds, 42}

InputHands ==
    {SetToSortedSeq(S) : S \in {T \in SUBSET InputCards :
                                    Cardinality(T) >= 1 /\ Cardinality(T) <= MaxInputHand}}

\* the human seat leads, or follows a card led by the seat before it
InputTricks(h) ==
    {<<>>} \cup {<<[player |-> 3, card |-> c]>> : c \in RuleCards \ Range(h)}

clearTimeout(tm, id) == {t \in tm : t.id # id}

called(op, id, events) ==
    [op |-> op, before |-> ctl, timersBefore |-> timers, promise |-> id, events |-> events]

\* a getCardSelection without the guard on the state
getCardSelectionUnguarded(validMoves) ==
    LET id == Len(promises) + 1
    IN  /\ promises' = Append(promises, [kind |-> "play", status |-> "pending", value |-> <<>>])
        /\ ctl' = [ctl EXCEPT !.state = "play_pending", !.pendingPlay = id,
                              !.validMoves = validMoves, !.timeout = id]
        /\ timers' = timers \cup {[id |-> id, kind |-> "play"]}
        /\ lastCall' = called("getCardSelection", id, <<"ENABLE_CARD_SELECTION">>)

\* getCardSelection(hand, validMoves): throws (a rejected promise) unless IDLE
getCardSelection(validMoves) ==
    LET id == Len(promises) + 1
    IN  IF ctl.state # "idle"
        THEN /\ promises' = Append(promises, [kind |-> "play", status |-> "rejected", value |-> <<>>])
             /\ lastCall' = called("getCardSelection", id, <<>>)
             /\ UNCHANGED <<ctl, timers>>
        ELSE /\ promises' = Append(promises, [kind |-> "play", status |-> "pending", value |-> <<>>])
             /\ ctl' = [ctl EXCEPT !.state = "play_pending", !.pendingPlay = id,
                                   !.validMoves = validMoves, !.timeout = id]
             /\ timers' = timers \cup {[id |-> id, kind |-> "play"]}
             /\ lastCall' = called("getCardSelection", id, <<"ENABLE_CARD_SELECTION">>)

\* getPassSelection(hand)
getPassSelection ==
    LET id == Len(promises) + 1
    IN  IF ctl.state # "idle"
        THEN /\ promises' = Append(promises, [kind |-> "pass", status |-> "rejected", value |-> <<>>])
             /\ lastCall' = called("getPassSelection", id, <<>>)
             /\ UNCHANGED <<ctl, timers>>
        ELSE /\ promises' = Append(promises, [kind |-> "pass", status |-> "pending", value |-> <<>>])
             /\ ctl' = [ctl EXCEPT !.state = "pass_pending", !.pendingPass = id, !.timeout = id]
             /\ timers' = timers \cup {[id |-> id, kind |-> "pass"]}
             /\ lastCall' = called("getPassSelection", id, <<"ENABLE_CARD_SELECTION">>)

\* cancelSelection(reason), called as op with the timers tm still armed
cancelSelection(op, tm) ==
    IF ctl.state = "play_pending" /\ ctl.pendingPlay # 0
    THEN /\ timers' = clearTimeout(tm, ctl.timeout)
         /\ ctl' = [ctl EXCEPT !.state = "idle", !.pendingPlay = 0, !.validMoves = NullMoves,
                               !.timeout = 0]
         /\ promises' = [promises EXCEPT ![ctl.pendingPlay].status = "rejected"]
         /\ lastCall' = called(op, ctl.pendingPlay, <<"DISABLE_CARD_SELECTION", "ERROR_OCCURRED">>)
    ELSE /\ timers' = tm
         /\ lastCall' = called(op, 0, <<>>)
         /\ UNCHANGED <<ctl, promises>>

\* a cancelPassSelection that left the pending selection alone
cancelPassSelectionIgnored(op, tm) ==
    /\ timers' = tm
    /\ lastCall' = called(op, 0, <<>>)
    /\ UNCHANGED <<ctl, promises>>

\* cancelPassSelection(reason)
cancelPassSelection(op, tm) ==
    IF ctl.state = "pass_pending" /\ ctl.pendingPass # 0
    THEN /\ timers' = clearTimeout(tm, ctl.timeout)
         /\ ctl' = [ctl EXCEPT !.state = "idle", !.pendingPass = 0, !.timeout = 0]
         /\ promises' = [promises EXCEPT ![ctl.pendingPass].status = "rejected"]
         /\ lastCall' = called(op, ctl.pendingPass, <<"DISABLE_CARD_SELECTION", "ERROR_OCCURRED">>)
    ELSE /\ timers' = tm
         /\ lastCall' = called(op, 0, <<>>)
         /\ UNCHANGED <<ctl, promises>>

\* a catch that played the first card of the hand
humanFallbackFirstOfHand(h, t) == IF Len(h) > 0 THEN <<h[1]>> ELSE <<>>

\* what the catch of HumanPlayer.playCard returns (<<>> for undefined)
humanFallback(h, t) ==
    LET validMoves == getValidMoves(h, t)
    IN  IF Len(validMoves) > 0 THEN <<validMoves[1]>>
        ELSE IF Len(h) > 0 THEN <<h[1]>>
        ELSE <<>>

inputFrame == UNCHANGED <<gameVars, initVars, emitterVars, botVars, ruleOut, argHand, argTrick>>

\* HumanPlayer.playCard up to its await
HumanPlayCard ==
    /\ human.phase \in {"idle", "done"}
    /\ Len(promises) < MaxRequests
    /\ getCardSelection(getValidMoves(argHand, argTrick))
    /\ human' = [phase |-> "awaiting", promise |-> Len(promises) + 1, result |-> <<>>]
    /\ inputFrame

\* HumanPlayer.playCard resumes with the card, or in its catch
HumanResume ==
    /\ human.phase = "awaiting"
    /\ promises[human.promise].status # "pending"
    /\ IF promises[human.promise].status = "resolved"
       THEN /\ human' = [human EXCEPT !.phase = "done", !.result = promises[human.promise].value]
            /\ lastCall' = called("playCardReturn", human.promise, <<>>)
       ELSE /\ human' = [human EXCEPT !.phase = "done", !.result = humanFallback(argHand, argTrick)]
            /\ lastCall' = called("playCardCatch", human.promise, <<"ERROR_OCCURRED">>)
    /\ UNCHANGED <<ctl, promises, timers>>
    /\ inputFrame

\* a selection asked of the controller by another caller than playCard
GetCardSelection ==
    /\ Len(promises) < MaxRequests
    /\ getCardSelection(getValidMoves(argHand, argTrick))
    /\ UNCHANGED human
    /\ inputFrame

GetPassSelection ==
    /\ Len(promises) < MaxRequests
    /\ getPassSelection
    /\ UNCHANGED human
    /\ inputFrame

\* a click handler that drops the selection timer on an invalid click
HandleCardClickDisarming(card) ==
    /\ IF ctl.state # "play_pending" \/ ctl.pendingPlay = 0
       THEN /\ lastCall' = called("handleCardClick", 0, <<>>)
            /\ UNCHANGED <<ctl, promises, timers>>
       ELSE IF card \in Range(ctl.validMoves)
       THEN /\ timers' = clearTimeout(timers, ctl.timeout)
            /\ ctl' = [ctl EXCEPT !.state = "idle", !.pendingPlay = 0,
                                  !.validMoves = NullMoves, !.timeout = 0]
            /\ promises' = [promises EXCEPT ![ctl.pendingPlay].status = "resolved",
                                            ![ctl.pendingPlay].value = <<card>>]
            /\ lastCall' = called("handleCardClick", ctl.pendingPlay, <<"DISABLE_CARD_SELECTION">>)
       ELSE /\ lastCall' = called("handleCardClick", 0, <<"INVALID_MOVE">>)
            /\ timers' = clearTimeout(timers, ctl.timeout)
            /\ UNCHANGED <<ctl, promises>>
    /\ UNCHANGED human
    /\ inputFrame

\* handleCardClick(card): a click on any card the table shows
HandleCardClick(card) ==
    /\ IF ctl.state # "play_pending" \/ ctl.pendingPlay = 0
       THEN /\ lastCall' = called("handleCardClick", 0, <<>>)
            /\ UNCHANGED <<ctl, promises, timers>>
       ELSE IF card \in Range(ctl.validMoves)
       THEN /\ timers' = clearTimeout(timers, ctl.timeout)
            /\ ctl' = [ctl EXCEPT !.state = "idle", !.pendingPlay = 0,
                                  !.validMoves = NullMoves, !.timeout = 0]
            /\ promises' = [promises EXCEPT ![ctl.pendingPlay].status = "resolved",
                                            ![ctl.pendingPlay].value = <<card>>]
            /\ lastCall' = called("handleCardClick", ctl.pendingPlay, <<"DISABLE_CARD_SELECTION">>)
       ELSE /\ lastCall' = called("handleCardClick", 0, <<"INVALID_MOVE">>)
            /\ UNCHANGED <<ctl, promises, timers>>
    /\ UNCHANGED human
    /\ inputFrame

\* the selections the pass button can confirm: cards of the hand, in hand order
PassConfirmations(h) ==
    {SetToSortedSeq(S) : S \in {T \in SUBSET Range(h) : Cardinality(T) \in {2, 3}}}

\* handlePassConfirm(selectedCards)
HandlePassConfirm(selectedCards) ==
    /\ IF ctl.state # "pass_pending" \/ ctl.pendingPass = 0
       THEN /\ lastCall' = called("handlePassConfirm", 0, <<>>)
            /\ UNCHANGED <<ctl, promises, timers>>
       ELSE IF Len(selectedCards) # PASS_CARDS_COUNT
       THEN /\ lastCall' = called("handlePassConfirm", 0, <<"INVALID_MOVE">>)
            /\ UNCHANGED <<ctl, promises, timers>>
       ELSE /\ timers' = clearTimeout(timers, ctl.timeout)
            /\ ctl' = [ctl EXCEPT !.state = "idle", !.pendingPass = 0, !.timeout = 0]
            /\ promises' = [promises EXCEPT ![ctl.pendingPass].status = "resolved",
                                            ![ctl.pendingPass].value = selectedCards]
            /\ lastCall' = called("handlePassConfirm", ctl.pendingPass, <<"DISABLE_CARD_SELECTION">>)
    /\ UNCHANGED human
    /\ inputFrame

CancelSelection ==
    /\ cancelSelection("cancelSelection", timers)
    /\ UNCHANGED human
    /\ inputFrame

CancelPassSelection ==
    /\ cancelPassSelection("cancelPassSelection", timers)
    /\ UNCHANGED human
    /\ inputFrame

\* SELECTION_TIMEOUT has passed for an armed timer: its callback runs
TimerFires(t) ==
    /\ t \in timers
    /\ IF t.kind = "play"
       THEN cancelSelection("playTimeout", timers \ {t})
       ELSE cancelPassSelection("passTimeout", timers \ {t})
    /\ UNCHANGED human
    /\ inputFrame

InitInput ==
    /\ constructed
    /\ rng = 1
    /\ strategy = [p \in Seats |-> "fallback"]
    /\ simulation = [enabled |-> FALSE, target |-> 0, completed |-> 0]
    /\ argHand \in InputHands
    /\ argTrick \in InputTricks(argHand)
    /\ ruleOut = NoOut
    /\ controllerConstructed
    /\ seated
    /\ noBotCall

NextInput ==
    \/ HumanPlayCard
    \/ HumanResume
    \/ GetCardSelection
    \/ GetPassSelection
    \/ \E card \in InputCards : HandleCardClick(card)
    \/ \E selectedCards \in PassConfirmations(argHand) : HandlePassConfirm(selectedCards)
    \/ CancelSelection
    \/ CancelPassSelection
    \/ \E t \in timers : TimerFires(t)

SpecInput == InitInput /\ [][NextInput]_vars

\* an armed setTimeout fires when its delay has passed, and the continuation
\* of an await runs once its promise has settled
SpecInputFair ==
    /\ InitInput
    /\ [][NextInput]_vars
    /\ WF_vars(\E t \in timers : TimerFires(t))
    /\ WF_vars(HumanResume)

pendingPromises == {i \in 1 .. Len(promises) : promises[i].status = "pending"}

requestWhilePending ==
    /\ lastCall.op \in {"getCardSelection", "getPassSelection"}
    /\ lastCall.before.state # "idle"

\* C8: at most one selection request is pending on the controller; a request
\* issued while another is pending is rejected, and the pending request keeps
\* its state, its resolver and its timer.
C8_OnePendingSelection ==
    /\ Cardinality(pendingPromises) <= 1
    /\ \A i \in pendingPromises :
          /\ ctl.state = (IF promises[i].kind = "play" THEN "play_pending" ELSE "pass_pending")
          /\ (IF promises[i].kind = "play" THEN ctl.pendingPlay ELSE ctl.pendingPass) = i
          /\ ctl.timeout = i
          /\ [id |-> i, kind |-> promises[i].kind] \in timers
    /\ requestWhilePending =>
          /\ promises[lastCall.promise].status = "rejected"
          /\ ctl = lastCall.before
          /\ timers = lastCall.timersBefore
          /\ pendingPromises # {}

\* a pass selection is refused while a card selection stays pending
C8_Witness ==
    /\ requestWhilePending
    /\ lastCall.op = "getPassSelection"
    /\ ctl.state = "play_pending"
    /\ promises[ctl.pendingPlay].status = "pending"
    /\ promises[lastCall.promise].status = "rejected"

playSelectionCancelled ==
    /\ lastCall.op \in {"cancelSelection", "playTimeout"}
    /\ lastCall.before.state = "play_pending"

\* C9: when a pending card selection times out or is cancelled its promise is
\* rejected, the controller is IDLE again and ERROR_OCCURRED is emitted; the
\* human seat's playCard then resolves to the first legal move.
C9_CancelledSelectionFallsBack ==
    /\ playSelectionCancelled =>
          /\ promises[lastCall.before.pendingPlay].status = "rejected"
          /\ ctl = IdleController
          /\ timers = {}
          /\ \E k \in 1 .. Len(lastCall.events) : lastCall.events[k] = "ERROR_OCCURRED"
    /\ (human.phase = "done" /\ promises[human.promise].status = "rejected") =>
          human.result = <<getValidMoves(argHand, argTrick)[1]>>

\* after a timeout the seat plays its first legal card, which is not the first of its hand
C9_Witness ==
    /\ human.phase = "done"
    /\ promises[human.promise].status = "rejected"
    /\ lastCall.op = "playCardCatch"
    /\ Len(argTrick) = 1
    /\ human.result # <<argHand[1]>>
    /\ human.result = <<getValidMoves(argHand, argTrick)[1]>>

pendingAt(n) == n <= Len(promises) /\ promises[n].status = "pending"

settledAt(n) == n <= Len(promises) /\ promises[n].status # "pending"

settlingCalls ==
    {"handleCardClick", "handlePassConfirm", "cancelSelection", "cancelPassSelection",
     "playTimeout", "passTimeout"}

-----------------------------------------------------------------------------
(* initialize(players) *)

nullEntry == playerEntry(TRUE, "other", FALSE, FALSE, FALSE)

\* entries that each fail one of the checks of the loop
defectiveEntries ==
    {nullEntry,
     playerEntry(FALSE, "other", TRUE, TRUE, TRUE),
     playerEntry(FALSE, "blank", TRUE, TRUE, TRUE),
     playerEntry(FALSE, "string", FALSE, TRUE, TRUE),
     playerEntry(FALSE, "string", TRUE, FALSE, TRUE),
     playerEntry(FALSE, "string", TRUE, TRUE, FALSE)}

oneDefect(k, e) == [fourPlayers EXCEPT !.entries[k] = e]

\* what a caller may hand to initialize: the four players, something that is
\* not an array, three or five players, and four with one defective entry
InitArgs ==
    {fourPlayers,
     [isArray |-> FALSE, entries |-> <<>>],
     [isArray |-> FALSE, entries |-> fourPlayers.entries],
     [isArray |-> TRUE, entries |-> <<aPlayer, aPlayer, aPlayer>>],
     [isArray |-> TRUE, entries |-> <<aPlayer, aPlayer, aPlayer, aPlayer, aPlayer>>]}
        \cup {oneDefect(k, e) : k \in 1 .. PLAYERS_COUNT, e \in defectiveEntries}

\* the checks of the loop minus the last one
entryErrorWithoutHandCheck(player) ==
    IF player.isNull THEN "is null or undefined"
    ELSE IF player.name # "string" THEN "has invalid name"
    ELSE IF ~player.playCard THEN "missing playCard method"
    ELSE IF ~player.choosePassCards THEN "missing choosePassCards method"
    ELSE "none"

\* the checks initialize makes on one entry, in its order
entryError(player) ==
    IF player.isNull THEN "is null or undefined"
    ELSE IF player.name # "string" THEN "has invalid name"
    ELSE IF ~player.playCard THEN "missing playCard method"
    ELSE IF ~player.choosePassCards THEN "missing choosePassCards method"
    ELSE IF ~player.hand THEN "missing hand array"
    ELSE "none"

RECURSIVE firstEntryError(_, _)
firstEntryError(entries, k) ==
    IF k > Len(entries) THEN "none"
    ELSE IF entryError(entries[k]) # "none" THEN entryError(entries[k])
    ELSE firstEntryError(entries, k + 1)

\* the message of the Error initialize throws, "none" when it throws nothing
initializeError(arg) ==
    IF ~arg.isArray THEN "players must be an array"
    ELSE IF Len(arg.entries) # PLAYERS_COUNT THEN "expected exactly 4 players"
    ELSE firstEntryError(arg.entries, 1)

Initialize ==
    /\ ~initOut.called
    /\ pc = "constructed"
    /\ IF initializeError(initArg) # "none"
       THEN /\ initOut' = [called |-> TRUE, threw |-> TRUE, events |-> <<>>,
                           playersBefore |-> players]
            /\ UNCHANGED <<gameVars, players>>
       ELSE /\ players' = initArg.entries
            /\ initOut' = [called |-> TRUE, threw |-> FALSE,
                           events |-> <<"GAME_INITIALIZED", "SCORE_UPDATED",
                                        "GAME_STARTED", "SCORE_UPDATED">>,
                           playersBefore |-> players]
            /\ startNewGame
            /\ UNCHANGED <<suspended, resumptions, position, suitLed, rng, strategy,
                           simulation, trick, leader, trickNum, winnerIndex, lastPlay,
                           lastEnd, initialHands>>
    /\ UNCHANGED <<ruleVars, inputVars, botVars, emitterVars, initArg>>

\* a GameState just constructed, or one whose player list the caller has set
\* as the simulation entry points do, and an argument for initialize
InitInitialize ==
    /\ constructed
    /\ players \in {<<>>, fourPlayers.entries}
    /\ initArg \in InitArgs
    /\ initOut = NoInit
    /\ noBotCall
    /\ rng \in 1 .. NumStreams
    /\ strategy = [p \in Seats |-> "fallback"]
    /\ simulation = [enabled |-> FALSE, target |-> 0, completed |-> 0]
    /\ noRuleCall
    /\ controllerConstructed

NextInitialize ==
    \/ Initialize
    \/ \E p \in Seats : ResolveSelection(p)
    \/ PassingComplete
    \/ BeginPlay
    \/ PlayCard
    \/ TrickDisplayed
    \/ TrickCollected
    \/ EndRound
    \/ ScheduledStartRound

SpecInitialize == InitInitialize /\ [][NextInitialize]_vars

lacksSomething(e) ==
    \/ e.isNull
    \/ e.name # "string"
    \/ ~e.playCard
    \/ ~e.choosePassCards
    \/ ~e.hand

notFourGoodPlayers(arg) ==
    \/ ~arg.isArray
    \/ Len(arg.entries) # 4
    \/ \E k \in 1 .. Len(arg.entries) : lacksSomething(arg.entries[k])

nothingStarted ==
    /\ pc = "constructed"
    /\ roundsStarted = 0
    /\ roundNumber = 0
    /\ hand = [p \in Seats |-> <<>>]

\* C20: initialize(players) throws when players is not an array of exactly 4
\* entries or an entry lacks a name, playCard, choosePassCards or a hand
\* array; the player list is then what it was, no event has been emitted and
\* no game or round has started.
C20_InitializeRejectsInvalidPlayers ==
    (initOut.called /\ notFourGoodPlayers(initArg)) =>
        /\ initOut.threw
        /\ players = initOut.playersBefore
        /\ initOut.events = <<>>
        /\ nothingStarted

\* initialize has been called on a GameState that had its four players, with
\* four entries the last of which has no hand array
C20_Witness ==
    /\ initOut.called
    /\ initOut.threw
    /\ initArg = oneDefect(4, playerEntry(FALSE, "string", TRUE, TRUE, FALSE))
    /\ players = fourPlayers.entries

-----------------------------------------------------------------------------
(* BotAdapter.  A card is to a strategy a string token, rank then suit     *)
(* letter; a string is modelled as the sequence of its characters.  What a *)
(* strategy returns is any JavaScript value: a string, or a value of       *)
(* another type.                                                           *)

MaxTokenLen == 3       \* longest string a strategy returns to playCard
MaxAdapterHand == 3    \* largest hand given to the BotAdapter

rankOf(c) == RANKS[Value(c) + 1]
suitOf(c) == SUITS[Suit(c) + 1]

\* String.prototype.toUpperCase, one character at a time
toUpperCase(ch) ==
    CASE ch = "q" -> "Q" [] ch = "k" -> "K" [] ch = "a" -> "A" [] ch = "j" -> "J"
      [] ch = "t" -> "T" [] ch = "h" -> "H" [] ch = "s" -> "S" [] ch = "d" -> "D"
      [] ch = "c" -> "C" [] ch = "x" -> "X" [] OTHER -> ch

toLowerCase(ch) ==
    CASE ch = "H" -> "h" [] ch = "S" -> "s" [] ch = "D" -> "d" [] ch = "C" -> "c"
      [] OTHER -> ch

RECURSIVE trimStart(_)
trimStart(str) ==
    IF str # <<>> /\ Head(str) = " " THEN trimStart(Tail(str)) ELSE str

RECURSIVE trimEnd(_)
trimEnd(str) ==
    IF str # <<>> /\ Last(str) = " " THEN trimEnd(SubSeq(str, 1, Len(str) - 1)) ELSE str

\* String.prototype.trim
trim(str) == trimEnd(trimStart(str))

\* the token with the rank as the Card has it: "10" stays two characters
botCardOfRankKept(c) ==
    IF rankOf(c) = "10" THEN <<"1", "0", toLowerCase(suitOf(c))>>
    ELSE <<rankOf(c), toLowerCase(suitOf(c))>>

\* convertHandToBotFormat, one card: "10" becomes "T", the suit is lowercased
botCardOf(c) == <<IF rankOf(c) = "10" THEN "T" ELSE rankOf(c), toLowerCase(suitOf(c))>>

StringValue(str) == [type |-> "string", chars |-> str]
OtherValue(type) == [type |-> type, chars |-> <<>>]

\* hand.find(...): the first card of the hand with that rank and suit, NULL for undefined
findCard(h, rank, suit) ==
    LET hits == SelectSeq(h, LAMBDA c : rankOf(c) = rank /\ suitOf(c) = suit)
    IN  IF Len(hits) > 0 THEN hits[1] ELSE NULL

\* the closure legalFallback of convertBotCardToCard; t is gameState.trick
legalFallback(h, t) ==
    LET valid == getValidMoves(h, t)
    IN  IF Len(valid) > 0 THEN valid[1] ELSE IF Len(h) > 0 THEN h[1] ELSE NULL

Returned(c) == [threw |-> FALSE, card |-> c]
Thrown == [threw |-> TRUE, card |-> NULL]

\* convertBotCardToCard(botCard, hand): reading normalized[0] of an empty
\* string gives undefined, and undefined.toUpperCase() throws a TypeError
convertBotCardToCard(botCard, h, t) ==
    IF botCard.type # "string" \/ Len(botCard.chars) < 2
    THEN Returned(legalFallback(h, t))
    ELSE LET normalized == trim(botCard.chars)
         IN  IF normalized = <<>> THEN Thrown
             ELSE LET botRank == IF Len(normalized) = 3 THEN "T"
                                 ELSE toUpperCase(normalized[1])
                      rank == IF botRank = "T" THEN "10" ELSE botRank
                      suit == toUpperCase(Last(normalized))
                      foundCard == findCard(h, rank, suit)
                  IN  IF foundCard = NULL THEN Returned(legalFallback(h, t))
                      ELSE Returned(foundCard)

StrategyThrows == [kind |-> "throws"]
StrategyReturns(v) == [kind |-> "returns", value |-> v]

\* BotAdapter.playCard(hand); t is gameState.trick when the strategy has returned
adapterPlayCard(h, t, answer) ==
    LET valid == getValidMoves(h, t)
        fallback == IF Len(valid) > 0 THEN valid[1] ELSE h[1]
    IN  IF Len(h) = 0 THEN Returned(NULL)
        ELSE IF answer.kind = "throws" THEN Returned(fallback)
        ELSE LET conv == convertBotCardToCard(answer.value, h, t)
             IN  IF conv.threw THEN Thrown
                 ELSE IF conv.card = NULL THEN Returned(fallback)
                 ELSE conv

ReturnedCards(cs) == [threw |-> FALSE, cards |-> cs]
ThrownCards == [threw |-> TRUE, cards |-> <<>>]

NotAnArray == [isArray |-> FALSE, tokens |-> <<>>]
ArrayOf(tokens) == [isArray |-> TRUE, tokens |-> tokens]

\* BotAdapter.choosePassCards(hand); t is gameState.trick when the strategy has returned
adapterChoosePassCards(h, t, answer) ==
    IF Len(h) < PASS_CARDS_COUNT THEN ReturnedCards(slice3(h))
    ELSE IF answer.kind = "throws" THEN ReturnedCards(highestThree(h))
    ELSE IF ~answer.value.isArray \/ Len(answer.value.tokens) # PASS_CARDS_COUNT
         THEN ReturnedCards(highestThree(h))
    ELSE LET botCards == answer.value.tokens
             converted == [k \in 1 .. Len(botCards) |-> convertBotCardToCard(botCards[k], h, t)]
             cards == SelectSeq([k \in 1 .. Len(botCards) |-> converted[k].card],
                                LAMBDA c : c # NULL)
         IN  IF \E k \in 1 .. Len(botCards) : converted[k].threw THEN ThrownCards
             ELSE IF Len(cards) # PASS_CARDS_COUNT THEN ReturnedCards(highestThree(h))
             ELSE ReturnedCards(cards)

-----------------------------------------------------------------------------
(* What a strategy is handed.  A strategy may do anything to the objects   *)
(* it is handed; what that does to the game depends on which of them are   *)
(* objects of the game.                                                    *)

\* the strategy method playCard calls: isLeading is read before the call
strategyMethod(adapterMethod, t) ==
    IF adapterMethod = "choosePassCards" THEN "choosePass"
    ELSE IF Len(t) = 0 THEN "chooseLead"
    ELSE "chooseFollow"

\* the arrays and objects reachable from the arguments of the call
handedObjects(method) ==
    IF method = "choosePass" THEN {"botHand", "scores"}
    ELSE {"botHand", "remaining", "ranks", "hasPlayers", "playedCards", "trick", "scores"}

\* CardTracker.getPlayedCards hands out a snapshot of the played cards
getPlayedCardsShares == "nothing"

\* the object of the game a handed object is, "nothing" for a copy or a new
\* object: buildFollowContext sets trick to gameState.trick itself
sharedWith(method, object) ==
    IF object = "trick" /\ method = "chooseFollow" THEN "gameState.trick"
    ELSE IF object = "playedCards" THEN getPlayedCardsShares
    ELSE "nothing"

ArrayOps == {"pop"}

NoMutation == [object |-> "none", op |-> "none"]

Mutations(method) ==
    {NoMutation} \cup {[object |-> o, op |-> op] : o \in handedObjects(method), op \in ArrayOps}

\* Array.prototype.pop
applyOp(op, arr) ==
    IF op = "pop" /\ Len(arr) > 0 THEN SubSeq(arr, 1, Len(arr) - 1) ELSE arr

\* gameState.trick once the strategy has done m to what it was handed
trickAfter(method, m, t) ==
    IF m.object # "none" /\ sharedWith(method, m.object) = "gameState.trick"
    THEN applyOp(m.op, t)
    ELSE t

-----------------------------------------------------------------------------
(* The BotAdapter on its own: one call of playCard or choosePassCards on a *)
(* hand and a trick drawn from a small deck, the strategy answering with   *)
(* any value and doing anything to what it was handed.                     *)

AdapterCards == {12, QueenOfSpades, 24, TenOfDiamonds}

AdapterLeads == {0, 42}

BotChars == {"Q", "T", "d", "s", "x", " "}

Strings(n) == UNION {[1 .. k -> BotChars] : k \in 0 .. n}

\* what a strategy may return where a token is expected
PlayValues ==
    {StringValue(str) : str \in Strings(MaxTokenLen)}
        \cup {OtherValue(ty) : ty \in {"undefined", "null", "number", "object"}}

PlayAnswers == {StrategyThrows} \cup {StrategyReturns(v) : v \in PlayValues}

PassTokens ==
    {StringValue(botCardOf(c)) : c \in AdapterCards}
        \cup {StringValue(<<"2", "c">>), StringValue(<<"x", "x">>), StringValue(<<" ", " ">>),
              OtherValue("undefined")}

PassAnswers ==
    {StrategyThrows, StrategyReturns(NotAnArray)}
        \cup {StrategyReturns(ArrayOf(ts)) : ts \in [1 .. PASS_CARDS_COUNT -> PassTokens]}
        \cup {StrategyReturns(ArrayOf(ts)) :
                 ts \in [1 .. 2 -> {StringValue(botCardOf(c)) : c \in AdapterCards}]}

AdapterTricks == {<<>>} \cup {trickOf(0, <<c>>) : c \in AdapterLeads}

AdapterHands ==
    {SetToSortedSeq(S) : S \in {T \in SUBSET AdapterCards : Cardinality(T) <= MaxAdapterHand}}

RECURSIVE trackerOf(_)
\* the CardTracker after the plays of the trick
trackerOf(t) ==
    IF t = <<>> THEN trackerReset
    ELSE LET before == SubSeq(t, 1, Len(t) - 1)
         IN  recordCardPlayed(trackerOf(before), Last(t).card, Last(t).player, before)

gameAt(method, h, t) ==
    [method |-> method, hand |-> h, trick |-> t, cardTracker |-> trackerOf(t)]

InitAdapter ==
    /\ constructed
    /\ seated
    /\ rng = 1
    /\ strategy = [p \in Seats |-> "fallback"]
    /\ simulation = [enabled |-> FALSE, target |-> 0, completed |-> 0]
    /\ noRuleCall
    /\ controllerConstructed
    /\ botOut = NoBotOut
    /\ \E h \in AdapterHands :
          \/ \E t \in AdapterTricks : botIn = gameAt("playCard", h, t)
          \/ botIn = gameAt("choosePassCards", h, <<>>)

\* one call of BotAdapter.playCard: the strategy does m and answers, then
\* the adapter converts the answer
AdapterPlayCard ==
    /\ botIn.method = "playCard"
    /\ ~botOut.called
    /\ \E answer \in PlayAnswers, m \in Mutations(strategyMethod("playCard", botIn.trick)) :
       LET method == strategyMethod("playCard", botIn.trick)
           \* an empty hand returns before the strategy is called
           did == IF Len(botIn.hand) = 0 THEN NoMutation ELSE m
           t == trickAfter(method, did, botIn.trick)
       IN  /\ botIn' = [botIn EXCEPT !.trick = t]
           /\ botOut' = [called |-> TRUE, method |-> method, answer |-> answer,
                         mutation |-> did, before |-> botIn,
                         result |-> adapterPlayCard(botIn.hand, t, answer)]
    /\ UNCHANGED <<gameVars, ruleVars, inputVars, initVars, emitterVars>>

AdapterChoosePassCards ==
    /\ botIn.method = "choosePassCards"
    /\ ~botOut.called
    /\ \E answer \in PassAnswers, m \in Mutations("choosePass") :
       LET method == strategyMethod("choosePassCards", botIn.trick)
           did == IF Len(botIn.hand) < PASS_CARDS_COUNT THEN NoMutation ELSE m
           t == trickAfter(method, did, botIn.trick)
       IN  /\ botIn' = [botIn EXCEPT !.trick = t]
           /\ botOut' = [called |-> TRUE, method |-> method, answer |-> answer,
                         mutation |-> did, before |-> botIn,
                         result |-> adapterChoosePassCards(botIn.hand, t, answer)]
    /\ UNCHANGED <<gameVars, ruleVars, inputVars, initVars, emitterVars>>

NextAdapter ==
    \/ AdapterPlayCard
    \/ AdapterChoosePassCards

SpecAdapter == InitAdapter /\ [][NextAdapter]_vars

\* C21: no call to a strategy's choosePass, chooseLead or chooseFollow changes
\* a hand, the current trick or the CardTracker state, whatever the strategy
\* does to the hand and context objects it is handed.
C21_StrategyCallLeavesGameStateAlone ==
    botOut.called =>
        /\ botIn.hand = botOut.before.hand
        /\ botIn.trick = botOut.before.trick
        /\ botIn.cardTracker = botOut.before.cardTracker

\* the string names card c: rank then suit letter, T or 10 for the ten, in
\* either case and with blanks around it
namesCard(str, c) ==
    LET normalized == trim(str)
        rankChars == IF rankOf(c) = "10" THEN {<<"T">>, <<"1", "0">>} ELSE {<<rankOf(c)>>}
    IN  /\ Len(normalized) \in {2, 3}
        /\ toUpperCase(Last(normalized)) = suitOf(c)
        /\ [k \in 1 .. Len(normalized) - 1 |-> toUpperCase(normalized[k])] \in rankChars

isTokenOfHeldCard(v, h) ==
    v.type = "string" /\ \E k \in 1 .. Len(h) : namesCard(v.chars, h[k])

playCardCalled == botOut.called /\ botIn.method = "playCard"

\* C22: for a non-empty hand, if the strategy throws or returns a value that
\* is not the token of a card in the hand, BotAdapter.playCard does not throw
\* and returns a card of the hand that is a member of getValidMoves(hand).
C22_PlayCardRecoversWithLegalCard ==
    (/\ playCardCalled
     /\ Len(botIn.hand) > 0
     /\ \/ botOut.answer.kind = "throws"
        \/ ~isTokenOfHeldCard(botOut.answer.value, botIn.hand))
        => /\ ~botOut.result.threw
           /\ botOut.result.card \in Range(botIn.hand)
           /\ botOut.result.card \in Range(getValidMoves(botIn.hand, botIn.trick))

choosePassCardsCalled == botOut.called /\ botIn.method = "choosePassCards"

\* C23: for a hand of at least 3 cards, whatever the strategy's choosePass
\* returns or throws, BotAdapter.choosePassCards returns exactly 3 pairwise
\* distinct cards that are all in the hand.
C23_PassSelectionIsThreeDistinctHeldCards ==
    (choosePassCardsCalled /\ Len(botIn.hand) >= 3) =>
        /\ ~botOut.result.threw
        /\ Len(botOut.result.cards) = 3
        /\ Cardinality(Range(botOut.result.cards)) = 3
        /\ Range(botOut.result.cards) \subseteq Range(botIn.hand)

-----------------------------------------------------------------------------
(* The strategies behind the BotAdapter.  A strategy is handed the hand as *)
(* four arrays of tokens and the context the adapter built; it works on     *)
(* cards {suit, rank} with ranks 2..14 and answers with one token.          *)

MaxStrategyHand == 3     \* largest h a strategy is asked about
MaxStrategyTrick == 2    \* most cards on the table when it is asked

LMSuits == {"C", "D", "H", "S"}

LMCard(suit, rank) == [suit |-> suit, rank |-> rank]

\* parseInt of a one-digit string
parseInt(ch) ==
    CASE ch = "2" -> 2 [] ch = "3" -> 3 [] ch = "4" -> 4 [] ch = "5" -> 5
      [] ch = "6" -> 6 [] ch = "7" -> 7 [] ch = "8" -> 8 [] ch = "9" -> 9

\* LMBot.#toLMCard: the token without its last character is the rank
toLMCard(botCardStr) ==
    LET rankStr == SubSeq(botCardStr, 1, Len(botCardStr) - 1)
        suitChar == Last(botCardStr)
    IN  LMCard(toUpperCase(suitChar),
               CASE rankStr = <<"T">> -> 10
                 [] rankStr = <<"J">> -> 11
                 [] rankStr = <<"Q">> -> 12
                 [] rankStr = <<"K">> -> 13
                 [] rankStr = <<"A">> -> 14
                 [] OTHER -> parseInt(rankStr[1]))

\* Number.prototype.toString of a rank below 10
rankToString(rank) ==
    CASE rank = 2 -> "2" [] rank = 3 -> "3" [] rank = 4 -> "4" [] rank = 5 -> "5"
      [] rank = 6 -> "6" [] rank = 7 -> "7" [] rank = 8 -> "8" [] rank = 9 -> "9"

\* LMBot.#fromLMCard
fromLMCard(lmCard) ==
    <<CASE lmCard.rank = 10 -> "T"
        [] lmCard.rank = 11 -> "J"
        [] lmCard.rank = 12 -> "Q"
        [] lmCard.rank = 13 -> "K"
        [] lmCard.rank = 14 -> "A"
        [] OTHER -> rankToString(lmCard.rank),
      toLowerCase(lmCard.suit)>>

\* LMBot.#flattenHand: hand2D.flat().map(toLMCard)
flattenHand(hand2D) ==
    LET flat == hand2D[1] \o hand2D[2] \o hand2D[3] \o hand2D[4]
    IN  [k \in 1 .. Len(flat) |-> toLMCard(flat[k])]

\* the rank of a Card of the engine as the strategies count it
\* (LMBot.#projectRankToLM, LMBot.#projectTrickToLikha)
projectRankToLM(c) == Value(c) + 2

\* the trick of the context as the strategy sees it
projectTrickToLikha(t) ==
    [k \in 1 .. Len(t) |->
        [player |-> t[k].player, card |-> LMCard(suitOf(t[k].card), projectRankToLM(t[k].card))]]

isLikhaBlack(card) == card.suit = "S" /\ card.rank = 12

isLikhaRed(card) == card.suit = "D" /\ card.rank = 10

isLikha(card) == isLikhaBlack(card) \/ isLikhaRed(card)

isPenalty(card) == card.suit = "H" \/ isLikha(card)

countSuits(cards) ==
    [s \in LMSuits |-> Len(SelectSeq(cards, LAMBDA c : c.suit = s))]

RECURSIVE insertByKey(_, _, _)
\* x goes behind every element whose key is not above its own
insertByKey(x, s, key) ==
    IF s = <<>> THEN <<x>>
    ELSE IF key[Head(s)] <= key[x] THEN <<Head(s)>> \o insertByKey(x, Tail(s), key)
    ELSE <<x>> \o s

RECURSIVE sortByKey(_, _)
\* Array.prototype.sort with the comparator (a, b) => key(a) - key(b): it is
\* stable, elements of equal key keep their order
sortByKey(s, key) ==
    IF s = <<>> THEN <<>>
    ELSE insertByKey(Last(s), sortByKey(SubSeq(s, 1, Len(s) - 1), key), key)

rankAsc(cards) == [c \in Range(cards) |-> c.rank]

\* the suitMap of convertHandToBotFormat
suitMap(suitKey) ==
    CASE suitKey = "H" -> 0 [] suitKey = "S" -> 1 [] suitKey = "D" -> 2 [] suitKey = "C" -> 3

\* BotAdapter.#botRankToIndex: RANKS.indexOf of a token's rank character, "T"
\* standing for "10"; indexOf gives -1 for what is not in RANKS
botRankToIndex(botRank) ==
    LET rank == IF botRank = "T" THEN "10" ELSE botRank
        found == {k \in 1 .. Len(RANKS) : RANKS[k] = rank}
    IN  IF found = {} THEN -1 ELSE (CHOOSE k \in found : TRUE) - 1

\* convertHandToBotFormat: each card's token is pushed, in the order of the
\* hand, to the array of its suit (hearts, spades, diamonds, clubs), then each
\* array is sorted by the RANKS index of the first character of its tokens
convertHandToBotFormat(h) ==
    [i \in 1 .. 4 |->
        LET ofSuit == SelectSeq(h, LAMBDA c : suitMap(toUpperCase(suitOf(c))) = i - 1)
            pushed == [k \in 1 .. Len(ofSuit) |-> botCardOf(ofSuit[k])]
        IN  sortByKey(pushed, [token \in Range(pushed) |-> botRankToIndex(token[1])])]

rankDesc(cards) == [c \in Range(cards) |-> 0 - c.rank]

\* lowestByRank: the first card of the lowest rank
lowestByRank(cards) ==
    cards[CHOOSE i \in 1 .. Len(cards) :
             /\ \A j \in 1 .. Len(cards) : cards[i].rank <= cards[j].rank
             /\ \A j \in 1 .. i - 1 : cards[j].rank > cards[i].rank]

\* the highest rank of the lead suit on the table (winningSoFar, currentHighRank)
winningRankOf(t) ==
    LET leadSuit == t[1].card.suit
        ranks == {t[k].card.rank : k \in {j \in 1 .. Len(t) : t[j].card.suit = leadSuit}}
    IN  CHOOSE r \in ranks : \A q \in ranks : q <= r

-----------------------------------------------------------------------------
(* LMG.js *)

LMG_isRisky(card) ==
    \/ card.suit = "S" /\ card.rank > 12
    \/ card.suit = "D" /\ (card.rank > 10 \/ card.rank = 14)

LMG_cardDangerForDiscard(card) ==
    IF isLikhaBlack(card) THEN 1000
    ELSE IF isLikhaRed(card) THEN 900
    ELSE IF card.suit = "H" THEN 500 + card.rank
    ELSE card.rank
           + (IF card.suit = "S" /\ card.rank >= 11 THEN 30 ELSE 0)
           + (IF card.suit = "D" /\ card.rank >= 9 THEN 25 ELSE 0)

\* the first suit among the candidates that is longest in the full hand,
\* then the lowest candidate of it
lowestFromLongestSuit(candidates, fullHand) ==
    LET suitCounts == countSuits(fullHand)
        best == CHOOSE i \in 1 .. Len(candidates) :
                   /\ \A j \in 1 .. Len(candidates) :
                         suitCounts[candidates[j].suit] <= suitCounts[candidates[i].suit]
                   /\ \A j \in 1 .. i - 1 :
                         suitCounts[candidates[j].suit] < suitCounts[candidates[i].suit]
        bestSuit == candidates[best].suit
    IN  lowestByRank(SelectSeq(candidates, LAMBDA c : c.suit = bestSuit))

computeLegalPlays(h, t) ==
    IF Len(t) = 0 THEN h
    ELSE LET followSuitCards == SelectSeq(h, LAMBDA c : c.suit = t[1].card.suit)
             likhas == SelectSeq(h, isLikha)
         IN  IF Len(followSuitCards) > 0 THEN followSuitCards
             ELSE IF Len(likhas) > 0 THEN likhas
             ELSE h

LMG_chooseLead(legalCards, fullHand) ==
    LET safeCards == SelectSeq(legalCards,
                         LAMBDA c : ~isPenalty(c) /\ ~LMG_isRisky(c) /\ c.suit # "H")
        hearts == SelectSeq(legalCards, LAMBDA c : c.suit = "H")
        riskyNonLikha == SelectSeq(legalCards, LAMBDA c : LMG_isRisky(c) /\ ~isLikha(c))
        \* 10♦ (1) before Q♠ (2), then by rank
        likhaOrder == [c \in Range(legalCards) |->
                          100 * (IF isLikhaBlack(c) THEN 2 ELSE 1) + c.rank]
    IN  IF Len(safeCards) > 0 THEN lowestFromLongestSuit(safeCards, fullHand)
        ELSE IF Len(hearts) > 0 THEN sortByKey(hearts, rankAsc(hearts))[1]
        ELSE IF Len(riskyNonLikha) > 0 THEN sortByKey(riskyNonLikha, rankAsc(riskyNonLikha))[1]
        ELSE sortByKey(legalCards, likhaOrder)[1]

\* the highest card under the winning one is wanted; this takes the lowest
LMG_chooseWhenFollowingLowestUnder(legalCards, t, fullHand) ==
    LET winningRank == winningRankOf(t)
        lower == SelectSeq(legalCards, LAMBDA c : c.rank < winningRank)
    IN  IF Len(lower) > 0 THEN sortByKey(lower, rankAsc(lower))[1] ELSE legalCards[1]

LMG_chooseWhenFollowing(legalCards, t, fullHand) ==
    LET leadSuit == t[1].card.suit
        cannotFollow == \E k \in 1 .. Len(legalCards) : legalCards[k].suit # leadSuit
        likhas == SelectSeq(legalCards, isLikha)
        q == SelectSeq(likhas, isLikhaBlack)
        hearts == SelectSeq(legalCards, LAMBDA c : c.suit = "H")
        discardOrder == [c \in Range(legalCards) |-> 0 - LMG_cardDangerForDiscard(c)]
        winningRank == winningRankOf(t)
        lower == SelectSeq(legalCards, LAMBDA c : c.rank < winningRank)
        higher == SelectSeq(legalCards, LAMBDA c : c.rank > winningRank)
        safeWinners == SelectSeq(higher, LAMBDA c : ~LMG_isRisky(c) /\ ~isPenalty(c))
        riskyWinners == SelectSeq(higher, LAMBDA c : LMG_isRisky(c) /\ ~isPenalty(c))
    IN  IF cannotFollow
        THEN IF Len(likhas) > 0
             THEN IF Len(q) > 0 THEN q[1] ELSE likhas[1]
             ELSE IF Len(hearts) > 0 THEN sortByKey(hearts, rankDesc(hearts))[1]
             ELSE sortByKey(legalCards, discardOrder)[1]
        ELSE IF Len(lower) > 0 THEN Last(sortByKey(lower, rankAsc(lower)))
        ELSE IF Len(safeWinners) > 0 THEN sortByKey(safeWinners, rankAsc(safeWinners))[1]
        ELSE IF Len(riskyWinners) > 0 THEN sortByKey(riskyWinners, rankAsc(riskyWinners))[1]
        ELSE sortByKey(higher, rankAsc(higher))[1]

\* LikhaBot.playCard of LMG.js; state.trick is always an array here
LMG_playCard(state) ==
    LET fullHand == state.hand
        t == state.trick
        legalCards == computeLegalPlays(fullHand, t)
    IN  IF Len(legalCards) = 1 THEN legalCards[1]
        ELSE IF Len(t) = 0 THEN LMG_chooseLead(legalCards, fullHand)
        ELSE LMG_chooseWhenFollowing(legalCards, t, fullHand)

-----------------------------------------------------------------------------
(* The context: CardTracker.getPlayersWithSuit, buildLeadContext,          *)
(* buildFollowContext of the BotAdapter, buildLikhaContext of the strategy *)

\* per suit (hearts, spades, diamonds, clubs) the seats not known void, as
\* positions relative to ourPlayerIndex
getPlayersWithSuit(tr, ourPlayerIndex) ==
    [i \in 1 .. 4 |->
        {(p - ourPlayerIndex + 4) % 4 :
            p \in {q \in Seats : q # ourPlayerIndex /\ (i - 1) \notin tr.playerVoids[q]}}]

buildLeadContext(tr, playerIndex) ==
    [hasPlayers |-> getPlayersWithSuit(tr, playerIndex),
     heartsBroken |-> tr.heartsBroken,
     queenOfSpadesPlayed |-> tr.queenOfSpadesPlayed,
     tenOfDiamondsPlayed |-> tr.tenOfDiamondsPlayed,
     trick |-> <<>>,
     playerIndex |-> playerIndex]

\* the follow context has no heartsBroken field
buildFollowContext(tr, playerIndex, t) ==
    IF Len(t) = 0 THEN buildLeadContext(tr, playerIndex)
    ELSE [hasPlayers |-> getPlayersWithSuit(tr, playerIndex),
          queenOfSpadesPlayed |-> tr.queenOfSpadesPlayed,
          tenOfDiamondsPlayed |-> tr.tenOfDiamondsPlayed,
          trick |-> t,
          playerIndex |-> playerIndex]

\* buildLikhaContext(state): ctx.heartsBroken || false
buildLikhaContext(state) ==
    LET ctx == state.context
        qInHand == \E k \in 1 .. Len(state.hand) : isLikhaBlack(state.hand[k])
        tenInHand == \E k \in 1 .. Len(state.hand) : isLikhaRed(state.hand[k])
    IN  [qInHand |-> qInHand,
         tenInHand |-> tenInHand,
         qInOpponents |-> ~qInHand /\ ~ctx.queenOfSpadesPlayed,
         tenInOpponents |-> ~tenInHand /\ ~ctx.tenOfDiamondsPlayed,
         playerIndex |-> ctx.playerIndex,
         hasPlayers |-> ctx.hasPlayers,
         heartsBroken |-> IF "heartsBroken" \in DOMAIN ctx THEN ctx.heartsBroken ELSE FALSE]

suitIdx(suit) == CASE suit = "H" -> 0 [] suit = "S" -> 1 [] suit = "D" -> 2 [] suit = "C" -> 3

\* the opponents (relative seats 1 and 3) known void in the suit
opponentsVoid(suit, ctx) ==
    LET playersWithSuit == ctx.hasPlayers[suitIdx(suit) + 1]
    IN  (IF 1 \notin playersWithSuit THEN 1 ELSE 0) + (IF 3 \notin playersWithSuit THEN 1 ELSE 0)

\* the legal cards without the forced play of a held Q♠ or 10♦
legalCardsOfAnyDiscard(fullHand, t, ctx) ==
    IF Len(t) > 0
    THEN LET following == SelectSeq(fullHand, LAMBDA c : c.suit = t[1].card.suit)
         IN  IF Len(following) > 0 THEN following ELSE fullHand
    ELSE LET nonHearts == SelectSeq(fullHand, LAMBDA c : c.suit # "H")
         IN  IF ~ctx.heartsBroken /\ Len(nonHearts) > 0 THEN nonHearts ELSE fullHand

\* the legal cards of playCard in LMLM.js and in the team-aware variant
legalCardsOf(fullHand, t, ctx) ==
    IF Len(t) > 0
    THEN LET following == SelectSeq(fullHand, LAMBDA c : c.suit = t[1].card.suit)
             penalties == SelectSeq(fullHand, isLikha)
         IN  IF Len(following) > 0 THEN following
             ELSE IF Len(penalties) > 0 THEN penalties
             ELSE fullHand
    ELSE LET nonHearts == SelectSeq(fullHand, LAMBDA c : c.suit # "H")
         IN  IF ~ctx.heartsBroken /\ Len(nonHearts) > 0 THEN nonHearts ELSE fullHand

-----------------------------------------------------------------------------
(* LMLM.js *)

\* leadCardDanger without the terms for high spades and high diamonds
LMLM_leadCardDangerNoProtection(card, fullHand, ctx) ==
    IF isLikha(card) THEN 10000
    ELSE IF card.suit = "H" /\ ~ctx.heartsBroken THEN 5000
    ELSE (IF ctx.qInHand /\ card.suit = "S" THEN 200 ELSE 0)
           + (IF ctx.tenInHand /\ card.suit = "D" THEN 150 ELSE 0)
           + 100 * opponentsVoid(card.suit, ctx)
           + (IF card.rank >= 13 THEN 100 ELSE 0)
           + card.rank
           - 15 * countSuits(fullHand)[card.suit]

LMLM_leadCardDanger(card, fullHand, ctx) ==
    IF isLikha(card) THEN 10000
    ELSE IF card.suit = "H" /\ ~ctx.heartsBroken THEN 5000
    ELSE (IF ctx.qInHand /\ card.suit = "S" THEN 200 ELSE 0)
           + (IF ctx.tenInHand /\ card.suit = "D" THEN 150 ELSE 0)
           + (IF card.suit = "D" /\ ctx.tenInOpponents /\ card.rank >= 11 THEN 1500 ELSE 0)
           + 100 * opponentsVoid(card.suit, ctx)
           + (IF card.suit = "S" /\ ctx.qInOpponents
              THEN IF card.rank >= 13 THEN 2000 ELSE 0 - 200
              ELSE 0)
           + (IF card.rank >= 13 THEN 100 ELSE 0)
           + card.rank
           - 15 * countSuits(fullHand)[card.suit]

\* the candidate of least danger, the first of them in the order of the hand
LMLM_chooseLead(legalCards, fullHand, ctx) ==
    sortByKey(legalCards,
              [c \in Range(legalCards) |-> LMLM_leadCardDanger(c, fullHand, ctx)])[1]

\* the points of the cards on the table as chooseWhenFollowing adds them up
\* (the cards of the projected trick carry no points field)
LMLM_pointsInTrick(t) ==
    LET p(card) == IF card.suit = "H" THEN 1
                   ELSE IF isLikhaBlack(card) THEN 13
                   ELSE IF isLikhaRed(card) THEN 10
                   ELSE 0
        summed == SumSeq([k \in 1 .. Len(t) |-> p(t[k].card)])
        withQ == IF (\E k \in 1 .. Len(t) : isLikhaBlack(t[k].card)) /\ summed < 13
                 THEN summed + 13 ELSE summed
    IN  IF (\E k \in 1 .. Len(t) : isLikhaRed(t[k].card)) /\ withQ < 10
        THEN withQ + 10 ELSE withQ

LMLM_chooseWhenFollowing(legalCards, t, fullHand, ctx) ==
    LET leadSuit == t[1].card.suit
        following == SelectSeq(legalCards, LAMBDA c : c.suit = leadSuit)
        currentHighRank == winningRankOf(t)
        isDangerous == \/ LMLM_pointsInTrick(t) > 0
                       \/ leadSuit = "S" /\ ctx.qInOpponents
                       \/ leadSuit = "D" /\ ctx.tenInOpponents
        under == SelectSeq(following, LAMBDA c : c.rank < currentHighRank)
        ascending == sortByKey(following, rankAsc(following))
        descending == sortByKey(ascending, rankDesc(ascending))
        safe == SelectSeq(ascending, LAMBDA c : ~isLikha(c))
        safeToBurn == SelectSeq(descending, LAMBDA c : ~isLikha(c))
        q == SelectSeq(legalCards, isLikhaBlack)
        ten == SelectSeq(legalCards, isLikhaRed)
        hearts == SelectSeq(legalCards, LAMBDA c : c.suit = "H")
        safeDump == SelectSeq(legalCards, LAMBDA c : ~isLikha(c))
    IN  IF Len(following) > 0
        THEN IF Len(under) > 0 THEN sortByKey(under, rankDesc(under))[1]
             ELSE IF isDangerous
                  THEN IF Len(safe) > 0 THEN safe[1] ELSE ascending[1]
                  ELSE IF Len(safeToBurn) > 0 THEN safeToBurn[1] ELSE descending[1]
        ELSE IF Len(q) > 0 THEN q[1]
        ELSE IF Len(ten) > 0 THEN ten[1]
        ELSE IF Len(hearts) > 0 THEN sortByKey(hearts, rankDesc(hearts))[1]
        ELSE IF Len(safeDump) > 0 THEN sortByKey(safeDump, rankDesc(safeDump))[1]
        ELSE legalCards[1]

\* LikhaBot.playCard of LMLM.js
LMLM_playCard(state) ==
    LET fullHand == state.hand
        ctx == buildLikhaContext(state)
        t == state.trick
        legalCards == legalCardsOf(fullHand, t, ctx)
    IN  IF Len(legalCards) = 1 THEN legalCards[1]
        ELSE IF Len(t) = 0 THEN LMLM_chooseLead(legalCards, fullHand, ctx)
        ELSE LMLM_chooseWhenFollowing(legalCards, t, fullHand, ctx)

-----------------------------------------------------------------------------
(* The team-aware variant (src/unnamed/part_006) *)

isPartner(myIndex, otherIndex) == (myIndex % 2) = (otherIndex % 2)

RECURSIVE findTrickWinnerFrom(_, _, _)
findTrickWinnerFrom(t, i, winner) ==
    IF i > Len(t) THEN winner
    ELSE findTrickWinnerFrom(t, i + 1,
             IF t[i].card.suit = t[1].card.suit /\ t[i].card.rank > winner.card.rank
             THEN t[i] ELSE winner)

findTrickWinner(t) == findTrickWinnerFrom(t, 2, t[1])

countTrickPoints(t) ==
    SumSeq([k \in 1 .. Len(t) |->
               IF isLikhaBlack(t[k].card) THEN 13
               ELSE IF isLikhaRed(t[k].card) THEN 10
               ELSE IF t[k].card.suit = "H" THEN 1
               ELSE 0])

Team_cardDangerForDiscard(card) ==
    IF isLikhaBlack(card) THEN 1000
    ELSE IF isLikhaRed(card) THEN 900
    ELSE IF card.suit = "H" THEN 500 + card.rank
    ELSE card.rank
           + (IF card.suit = "S" /\ card.rank >= 11 THEN 30 ELSE 0)
           + (IF card.suit = "D" /\ card.rank >= 11 THEN 25 ELSE 0)
           + (IF card.suit = "D" /\ card.rank >= 8 THEN 15 ELSE 0)

Team_leadCardDanger(card, fullHand, ctx) ==
    IF isLikha(card) THEN 10000
    ELSE IF card.suit = "H" /\ ~ctx.heartsBroken THEN 5000
    ELSE 50 * opponentsVoid(card.suit, ctx)
           + (IF card.suit = "S"
              THEN IF ctx.qInOpponents
                   THEN IF card.rank >= 12 THEN 2000 ELSE 0 - 200
                   ELSE IF ctx.qInHand THEN 100 ELSE 0
              ELSE 0)
           + (IF card.suit = "D" /\ ctx.tenInOpponents
              THEN IF card.rank > 10 THEN 500 ELSE 0 - 50
              ELSE 0)
           - 10 * countSuits(fullHand)[card.suit]
           + card.rank

Team_chooseLead(legalCards, fullHand, ctx) ==
    sortByKey(legalCards,
              [c \in Range(legalCards) |-> Team_leadCardDanger(c, fullHand, ctx)])[1]

\* the branch of chooseWhenFollowing for a hand that holds the lead suit
Team_followSuit(following, t, ctx) ==
    LET leadSuit == t[1].card.suit
        isLastToPlay == Len(t) = 3
        winnerEntry == findTrickWinner(t)
        currentHighRank == winnerEntry.card.rank
        partnerWinning == isPartner(ctx.playerIndex, winnerEntry.player)
        isDangerous == \/ countTrickPoints(t) > 0
                       \/ leadSuit = "S" /\ ctx.qInOpponents
                       \/ leadSuit = "D" /\ ctx.tenInOpponents
        under == SelectSeq(following, LAMBDA c : c.rank < currentHighRank)
        nonLikha == SelectSeq(following, LAMBDA c : ~isLikha(c))
        nonLikhaWinners == SelectSeq(following,
                               LAMBDA c : c.rank > currentHighRank /\ ~isLikha(c))
        lowest == sortByKey(following, rankAsc(following))[1]
    IN  IF Len(under) > 0 THEN sortByKey(under, rankDesc(under))[1]
        ELSE IF partnerWinning
        THEN IF ~isDangerous
             THEN IF Len(nonLikhaWinners) > 0
                  THEN sortByKey(nonLikhaWinners, rankDesc(nonLikhaWinners))[1]
                  ELSE lowest
             ELSE IF Len(nonLikha) > 0 THEN sortByKey(nonLikha, rankAsc(nonLikha))[1]
                  ELSE lowest
        ELSE IF isDangerous
        THEN IF Len(nonLikha) > 0 THEN sortByKey(nonLikha, rankAsc(nonLikha))[1] ELSE lowest
        ELSE IF isLastToPlay
        THEN IF Len(nonLikha) > 0 THEN sortByKey(nonLikha, rankDesc(nonLikha))[1] ELSE lowest
        ELSE IF Len(nonLikhaWinners) > 0
        THEN sortByKey(nonLikhaWinners, rankAsc(nonLikhaWinners))[1]
        ELSE lowest

\* the branch of chooseWhenFollowing for a hand void in the lead suit
Team_discard(legalCards, t, ctx) ==
    LET partnerWinning == isPartner(ctx.playerIndex, findTrickWinner(t).player)
        onlyLikhas == \A k \in 1 .. Len(legalCards) : isLikha(legalCards[k])
        red == SelectSeq(legalCards, isLikhaRed)
        black == SelectSeq(legalCards, isLikhaBlack)
        hearts == SelectSeq(legalCards, LAMBDA c : c.suit = "H")
        safe == SelectSeq(legalCards, LAMBDA c : ~isPenalty(c))
        safeDump == SelectSeq(legalCards, LAMBDA c : ~isLikha(c))
        byDanger(cards) == sortByKey(cards,
                               [c \in Range(cards) |-> 0 - Team_cardDangerForDiscard(c)])
    IN  IF onlyLikhas
        THEN IF partnerWinning
             THEN IF Len(red) > 0 THEN red[1] ELSE legalCards[1]
             ELSE IF Len(black) > 0 THEN black[1] ELSE legalCards[1]
        ELSE IF ~partnerWinning
        THEN IF Len(black) > 0 THEN black[1]
             ELSE IF Len(red) > 0 THEN red[1]
             ELSE IF Len(hearts) > 0 THEN sortByKey(hearts, rankDesc(hearts))[1]
             ELSE IF Len(safeDump) > 0 THEN byDanger(safeDump)[1]
             ELSE legalCards[1]
        ELSE IF Len(safe) > 0 THEN byDanger(safe)[1]
             ELSE IF Len(hearts) > 0 THEN sortByKey(hearts, rankAsc(hearts))[1]
             ELSE IF Len(red) > 0 THEN red[1]
             ELSE legalCards[1]

Team_chooseWhenFollowing(legalCards, t, fullHand, ctx) ==
    LET following == SelectSeq(legalCards, LAMBDA c : c.suit = t[1].card.suit)
    IN  IF Len(following) > 0 THEN Team_followSuit(following, t, ctx)
        ELSE Team_discard(legalCards, t, ctx)

\* LikhaBot.playCard of the team-aware variant
Team_playCard(state) ==
    LET fullHand == state.hand
        ctx == buildLikhaContext(state)
        t == state.trick
        legalCards == legalCardsOf(fullHand, t, ctx)
    IN  IF Len(legalCards) = 1 THEN legalCards[1]
        ELSE IF Len(t) = 0 THEN Team_chooseLead(legalCards, fullHand, ctx)
        ELSE Team_chooseWhenFollowing(legalCards, t, fullHand, ctx)

-----------------------------------------------------------------------------
(* The LMBot wrappers and one decision of a strategy behind the adapter:   *)
(* a seat holding a few cards is asked for a card, to lead or on a trick   *)
(* in progress, in a round where some cards have gone and some seats have  *)
(* shown a void.                                                           *)

Bots == {"LMG", "LMLM", "Team"}

playCardOf(bot, state) ==
    CASE bot = "LMG" -> LMG_playCard(state)
      [] bot = "LMLM" -> LMLM_playCard(state)
      [] bot = "Team" -> Team_playCard(state)

\* LMBot.chooseLead(hand, ctx)
botChooseLead(bot, hand2D, ctx) ==
    fromLMCard(playCardOf(bot,
        [hand |-> flattenHand(hand2D), trick |-> <<>>, context |-> ctx]))

\* LMBot.chooseFollow(hand, ctx)
botChooseFollow(bot, hand2D, ctx) ==
    fromLMCard(playCardOf(bot,
        [hand |-> flattenHand(hand2D), trick |-> projectTrickToLikha(ctx.trick),
         context |-> ctx]))

\* 2♥ A♥ 5♠ Q♠ K♠ 10♦ J♦ A♦ 2♣
StrategyCards == {0, 12, 16, QueenOfSpades, 24, TenOfDiamonds, 35, 38, 39}

\* 3♠ Q♠ A♠ K♦
StrategyLeads == {14, QueenOfSpades, 25, 37}

\* 3♥ Q♠ 10♦ in the tricks before this one
EarlierPlays == {1, QueenOfSpades, TenOfDiamonds}

StrategySeat == 0

NoVoids == [p \in Seats |-> {}]

\* nothing known, or the seat to the left void in spades and the seat to the
\* right void in diamonds
StrategyVoids == {NoVoids, [NoVoids EXCEPT ![1] = {SuitS}, ![3] = {SuitD}]}

StrategyHands ==
    {SetToSortedSeq(S) : S \in {T \in SUBSET StrategyCards :
                                   Cardinality(T) \in 1 .. MaxStrategyHand}}

StrategyTricks ==
    UNION {{trickOf((StrategySeat + PLAYERS_COUNT - n) % PLAYERS_COUNT, cs) :
               cs \in {ds \in [1 .. n -> StrategyLeads] :
                          \A i, j \in 1 .. n : i # j => ds[i] # ds[j]}} :
           n \in 0 .. MaxStrategyTrick}

\* the CardTracker after the earlier tricks
trackerAfter(earlier, voids) ==
    [playedCards |-> earlier,
     playerVoids |-> voids,
     heartsBroken |-> \E c \in earlier : Suit(c) = SuitH,
     queenOfSpadesPlayed |-> QueenOfSpades \in earlier,
     tenOfDiamondsPlayed |-> TenOfDiamonds \in earlier,
     tricksPlayed |-> IF earlier = {} /\ voids = NoVoids THEN 0 ELSE 1,
     firstTrickRevealedVoid |-> NoVoidRevealed]

RECURSIVE trackerWith(_, _)
\* the CardTracker after the plays of the trick as well
trackerWith(base, t) ==
    IF t = <<>> THEN base
    ELSE LET before == SubSeq(t, 1, Len(t) - 1)
         IN  recordCardPlayed(trackerWith(base, before), Last(t).card, Last(t).player, before)

InitStrategy ==
    /\ constructed
    /\ seated
    /\ rng = 1
    /\ strategy = [p \in Seats |-> "fallback"]
    /\ simulation = [enabled |-> FALSE, target |-> 0, completed |-> 0]
    /\ noRuleCall
    /\ controllerConstructed
    /\ botOut = NoBotOut
    /\ \E h \in StrategyHands, t \in StrategyTricks, voids \in StrategyVoids :
          \E earlier \in SUBSET (EarlierPlays \ (Range(h) \cup trickCards(t))) :
             /\ Range(h) \cap trickCards(t) = {}
             /\ botIn = [method |-> "playCard", hand |-> h, trick |-> t,
                         playerIndex |-> StrategySeat,
                         cardTracker |-> trackerWith(trackerAfter(earlier, voids), t)]

\* BotAdapter.playCard at the head of a trick: the strategy's chooseLead
ChooseLead ==
    /\ botIn.method = "playCard"
    /\ Len(botIn.trick) = 0
    /\ ~botOut.called
    /\ \E bot \in Bots :
          LET botHand == convertHandToBotFormat(botIn.hand)
              ctx == buildLeadContext(botIn.cardTracker, botIn.playerIndex)
              token == botChooseLead(bot, botHand, ctx)
          IN  botOut' = [called |-> TRUE, bot |-> bot, method |-> "chooseLead",
                         ctx |-> buildLikhaContext([hand |-> flattenHand(botHand),
                                                    context |-> ctx]),
                         token |-> token,
                         result |-> adapterPlayCard(botIn.hand, botIn.trick,
                                                    StrategyReturns(StringValue(token)))]
    /\ UNCHANGED <<gameVars, ruleVars, inputVars, initVars, emitterVars, botIn>>

\* BotAdapter.playCard on a trick in progress: the strategy's chooseFollow
ChooseFollow ==
    /\ botIn.method = "playCard"
    /\ Len(botIn.trick) > 0
    /\ ~botOut.called
    /\ \E bot \in Bots :
          LET botHand == convertHandToBotFormat(botIn.hand)
              ctx == buildFollowContext(botIn.cardTracker, botIn.playerIndex, botIn.trick)
              token == botChooseFollow(bot, botHand, ctx)
          IN  botOut' = [called |-> TRUE, bot |-> bot, method |-> "chooseFollow",
                         ctx |-> buildLikhaContext([hand |-> flattenHand(botHand),
                                                    context |-> ctx]),
                         token |-> token,
                         result |-> adapterPlayCard(botIn.hand, botIn.trick,
                                                    StrategyReturns(StringValue(token)))]
    /\ UNCHANGED <<gameVars, ruleVars, inputVars, initVars, emitterVars, botIn>>

NextStrategy ==
    \/ ChooseLead
    \/ ChooseFollow

SpecStrategy == InitStrategy /\ [][NextStrategy]_vars

-----------------------------------------------------------------------------
(* What the strategies answer *)

strategyAnswered == botOut.called /\ botOut.method \in {"chooseLead", "chooseFollow"}

\* the engine's rule, on cards of the hand: the lead suit when the hand has
\* it, else the Queen of Spades or the Ten of Diamonds when the hand has one
legalUnderTheRule(c, h, t) ==
    /\ c \in Range(h)
    /\ Len(t) > 0 =>
          IF holdsSuit(h, Suit(t[1].card)) THEN Suit(c) = Suit(t[1].card)
          ELSE (\E d \in Range(h) : isLeekhaCard(d)) => isLeekhaCard(c)

strategyFollowed == botOut.called /\ botOut.method = "chooseFollow"

\* the value of the highest card of the lead suit on the table
highestOfLeadSuit(t) ==
    LET values == {Value(t[k].card) : k \in {j \in 1 .. Len(t) : Suit(t[j].card) = Suit(t[1].card)}}
    IN  CHOOSE v \in values : \A w \in values : w <= v

\* the cards of the hand that follow suit and lose to the table
losingCards(h, t) ==
    {c \in Range(h) : Suit(c) = Suit(t[1].card) /\ Value(c) < highestOfLeadSuit(t)}

strategyLed == botOut.called /\ botOut.method = "chooseLead"

\* C27: leading from a hand of only the Queen of Spades and the Ten of
\* Diamonds, chooseLead answers with the Ten of Diamonds.
C27_LeadsTenOfDiamondsBeforeQueen ==
    (strategyLed /\ botIn.hand = <<QueenOfSpades, TenOfDiamonds>>) =>
        botOut.token = botCardOf(TenOfDiamonds)

\* the Queen of Spades, or the Ten of Diamonds, is neither in the hand nor
\* played: another seat holds it
heldElsewhere(c) == c \notin Range(botIn.hand) /\ c \notin botIn.cardTracker.playedCards

\* a King or Ace of spades under a Queen held elsewhere, a Jack to Ace of
\* diamonds under a Ten held elsewhere
exposedLead(c) ==
    \/ Suit(c) = SuitS /\ Value(c) > Value(QueenOfSpades) /\ heldElsewhere(QueenOfSpades)
    \/ Suit(c) = SuitD /\ Value(c) > Value(TenOfDiamonds) /\ heldElsewhere(TenOfDiamonds)

\* a card of the hand to lead instead: not exposed, not a penalty card, not
\* a heart while hearts are unbroken
safeLeads ==
    {c \in Range(botIn.hand) :
        /\ ~exposedLead(c)
        /\ ~isLeekhaCard(c)
        /\ ~(Suit(c) = SuitH /\ ~botIn.cardTracker.heartsBroken)}

-----------------------------------------------------------------------------
(* GameState.getCurrentState, the debug snapshot: a game with four seats   *)
(* that follow the rules runs to any point, then the snapshot is asked for *)
(* a few times in a row.                                                   *)

MaxSnapshots == 2    \* calls of getCurrentState in a row

\* Array.from(this.cardTracker.playedCards[suit]) for every suit: the ranks
\* recorded for the suit
playedCardsBySuit(tr) ==
    [s \in Suits |-> {RANKS[Value(c) + 1] : c \in {d \in tr.playedCards : Suit(d) = s}}]

\* GameState.scores: the constructor and startNewGame assign [0, 0, 0, 0],
\* nothing else assigns the field or an element of it (endRound adds the
\* round's points to player.score)
GameState_scores == [p \in Seats |-> 0]

\* scores: [...this.gameState.scores] of buildPassContext, buildLeadContext
\* and buildFollowContext
contextScores == GameState_scores

\* the object getCurrentState returns.  GameState.currentTurn is written by
\* the constructor only: 0
getCurrentState ==
    [roundNumber |-> roundNumber,
     scores |-> GameState_scores,
     currentTurn |-> 0,
     trick |-> [k \in 1 .. Len(trick) |->
                   [player |-> trick[k].player, card |-> cardId(trick[k].card)]],
     initialHands |-> initialHands,
     currentHands |-> [p \in Seats |-> cardIds(hand[p])],
     cardTracker |-> [playedCards |-> playedCardsBySuit(cardTracker),
                      playerVoids |-> cardTracker.playerVoids,
                      heartsBroken |-> cardTracker.heartsBroken,
                      queenOfSpadesPlayed |-> cardTracker.queenOfSpadesPlayed,
                      tenOfDiamondsPlayed |-> cardTracker.tenOfDiamondsPlayed,
                      tricksPlayed |-> cardTracker.tricksPlayed,
                      firstTrickRevealedVoid |-> cardTracker.firstTrickRevealedVoid]]

snapshotsTaken == IF ruleOut.op = "getCurrentState" THEN ruleOut.calls ELSE 0

\* what a call adds to the record of the calls made in a row
snapshotRecord ==
    [op |-> "getCurrentState",
     calls |-> snapshotsTaken + 1,
     returned |-> (IF snapshotsTaken = 0 THEN <<>> ELSE ruleOut.returned)
                      \o <<getCurrentState>>,
     gameBefore |-> IF snapshotsTaken = 0 THEN gameVars ELSE ruleOut.gameBefore]

\* a snapshot that takes the cards off the table as it lists them
\* (this.trick.splice(0) for this.trick)
GetCurrentStateClearingTrick ==
    /\ snapshotsTaken < MaxSnapshots
    /\ ruleOut' = snapshotRecord
    /\ trick' = <<>>
    /\ UNCHANGED <<pc, rng, strategy, simulation, hand, score, currentRoundPoints,
                   roundNumber, dealerIndex, queenOfSpadesCapturedBy, cardTracker,
                   initialHands, choices, leader, trickNum, winnerIndex, roundsStarted,
                   dealt, passOrder, lastPlay, lastEnd, position, suitLed, suspended,
                   resumptions, roundLog, queenTricks>>
    /\ UNCHANGED <<argHand, argTrick, inputVars, initVars, emitterVars, botVars>>

\* getCurrentState(): it reads and assigns nothing
GetCurrentState ==
    /\ snapshotsTaken < MaxSnapshots
    /\ ruleOut' = snapshotRecord
    /\ UNCHANGED <<gameVars, argHand, argTrick, inputVars, initVars, emitterVars, botVars>>

InitSnapshot ==
    /\ constructed
    /\ seated
    /\ noBotCall
    /\ rng \in 1 .. NumStreams
    /\ strategy = [p \in Seats |-> "fallback"]
    /\ simulation = [enabled |-> FALSE, target |-> 0, completed |-> 0]
    /\ noRuleCall
    /\ controllerConstructed

\* the game goes on until the first snapshot is asked for
NextSnapshot ==
    \/ snapshotsTaken = 0 /\ Next
    \/ GetCurrentState

SpecSnapshot == InitSnapshot /\ [][NextSnapshot]_vars

\* C25: getCurrentState called twice with no game operation in between
\* returns equal data both times, and the calls leave the game, the hands,
\* the trick and the CardTracker as they were before the first call.
C25_SnapshotIsIdempotent ==
    ruleOut.op = "getCurrentState" =>
        /\ gameVars = ruleOut.gameBefore
        /\ \A k \in 1 .. ruleOut.calls : ruleOut.returned[k] = ruleOut.returned[1]

\* two snapshots in the middle of a trick, after a seat has shown a void
C25_Witness ==
    /\ ruleOut.op = "getCurrentState"
    /\ ruleOut.calls = 2
    /\ Len(trick) \in 1 .. 3
    /\ cardTracker.tricksPlayed > 0
    /\ \E p \in Seats : cardTracker.playerVoids[p] # {}
    /\ Len(ruleOut.returned[2].trick) = Len(trick)

-----------------------------------------------------------------------------
(* Claims about the cards of a round and the CardTracker *)

\* CardTracker.getRemainingCounts: per suit, 13 less the ranks recorded
getRemainingCounts(tr) ==
    [s \in Suits |-> 13 - Cardinality({c \in tr.playedCards : Suit(c) = s})]

cardsInHands == UNION {Range(hand[p]) : p \in Seats}

numberHeld == SumOver([p \in Seats |-> Len(hand[p])])

\* C29: from the end of the passing phase to the end of the round, each of
\* the 52 cards is in exactly one seat's hand or recorded as played by the
\* CardTracker, never both and never neither; so the tracker's remaining
\* counts sum to the number of cards held in the four hands.
C29_EveryCardHeldOncePlayedOrNot ==
    afterThePass =>
        /\ Cardinality(cardsInHands) = numberHeld
        /\ cardsInHands \cap cardTracker.playedCards = {}
        /\ cardsInHands \cup cardTracker.playedCards = Cards
        /\ SumOver(getRemainingCounts(cardTracker)) = numberHeld

voidMarks == {<<p, s>> \in Seats \X Suits : s \in cardTracker.playerVoids[p]}

\* C30: whenever the CardTracker has seat p marked void in suit s, seat p
\* holds no card of suit s: at the moment of the mark and, the mark staying
\* until the tracker is reset, at every later point of the round.
C30_VoidMarkMeansNoCardOfSuit ==
    \A m \in voidMarks : ~holdsSuit(hand[m[1]], m[2])

-----------------------------------------------------------------------------
(* Claims about the scores a snapshot and a strategy are shown              *)

\* C31: the scores held in GameState.scores, and so the scores of the debug
\* snapshot and of every context handed to a strategy, are the four seats'
\* cumulative scores at all times.
C31_GameStateScoresAreTheSeatsScores ==
    /\ GameState_scores = score
    /\ getCurrentState.scores = score
    /\ contextScores = score

-----------------------------------------------------------------------------
(* Claims about the length of a game                                        *)

\* the rounds of the current game that endRound has scored: startRound
\* counts a round when it starts, endRound leaves roundNumber alone
roundsScored == IF roundInProgress \/ pc = "crashed" THEN roundNumber - 1 ELSE roundNumber

\* C32: with every selection request settling, every game reaches GameOver no
\* later than the end of its 12th round: the play loop never stops short of
\* GameOver, every scored round has added 36 points in total, and so, with
\* four seats below 101 holding at most 400, no 13th round starts.
C32_GameOverByTheTwelfthRound ==
    /\ pc # "crashed"
    /\ pc # "constructed" => SumOver(score) = 36 * roundsScored
    /\ roundNumber <= 12

-----------------------------------------------------------------------------
(* Claims about the trick-phase classifier of the BotAdapter                *)

\* BotAdapter.getTrickType() for the tracker tr and the trick t on the table
getTrickType(tr, t) ==
    IF tr.tricksPlayed = 0 THEN -1
    ELSE IF tr.queenOfSpadesPlayed THEN 2
    ELSE IF \E k \in 1 .. Len(t) : Suit(t[k].card) = SuitS /\ RANKS[Value(t[k].card) + 1] = "Q" THEN 1
    ELSE 0

\* a seat is about to be asked for its card: the point where the contexts
\* are built
seatAsked == pc = "awaitCard"

\* C33: getTrickType returns -1 while no trick of the round has completed, 1
\* when the Queen of Spades is among the cards of the trick in progress, 2
\* when it was played in an earlier trick of the round, and 0 otherwise.
C33_TrickTypeClassifiesThePhase ==
    seatAsked =>
        getTrickType(cardTracker, trick) =
            IF trickNum = 0 THEN -1
            ELSE IF QueenOfSpades \in trickCards(trick) THEN 1
            ELSE IF QueenOfSpades \in cardTracker.playedCards THEN 2
            ELSE 0

-----------------------------------------------------------------------------
(* Claims about the void revealed in the first trick                        *)

\* the 1-based positions of the plays of trick t that are off the lead suit
offLeadPositions(t) == {k \in 2 .. Len(t) : Suit(t[k].card) # Suit(t[1].card)}

\* the 1-based position of the first play off the lead suit
firstOffLead(t) == CHOOSE k \in offLeadPositions(t) : \A j \in offLeadPositions(t) : k <= j

\* the first trick of the round is being played or lies on the table
inFirstTrick == trickNum = 0 /\ pc \in {"awaitCard", "display", "collect"}

\* firstTrickRevealedVoid changes at most once a round, in the first trick,
\* and goes back to the sentinel only
revealedVoidSetOnce ==
    cardTracker'.firstTrickRevealedVoid # cardTracker.firstTrickRevealedVoid =>
        \/ cardTracker'.firstTrickRevealedVoid = NoVoidRevealed
        \/ cardTracker.firstTrickRevealedVoid = NoVoidRevealed /\ inFirstTrick

\* C34 as stated: the first play off the lead suit in the first trick sets
\* firstTrickRevealedVoid to its 1-based position in the trick (2, 3 or 4),
\* and the value is the sentinel 100 while no seat has failed to follow suit.
C34_RevealedVoidIsOneBasedPosition ==
    inFirstTrick =>
        cardTracker.firstTrickRevealedVoid =
            IF offLeadPositions(trick) = {} THEN NoVoidRevealed ELSE firstOffLead(trick)

\* C34 (amended): the first play off the lead suit in the first trick sets
\* firstTrickRevealedVoid to the number of cards that lay in the trick before
\* it (1, 2 or 3: the 0-based position of the play); it is set at most once
\* per round, and it stays at the sentinel 100 whenever no seat failed to
\* follow suit in the first trick.
C34_RevealedVoidIsCardsBefore ==
    /\ [](/\ pc \in {"passing", "passed"} => cardTracker.firstTrickRevealedVoid = NoVoidRevealed
          /\ inFirstTrick =>
                cardTracker.firstTrickRevealedVoid =
                    IF offLeadPositions(trick) = {} THEN NoVoidRevealed
                    ELSE firstOffLead(trick) - 1)
    /\ [][revealedVoidSetOnce]_vars

\* a void was revealed in the first trick and a later trick is being played
C34_Witness ==
    /\ trickNum >= 1
    /\ pc = "awaitCard"
    /\ cardTracker.firstTrickRevealedVoid \in {1, 2, 3}

-----------------------------------------------------------------------------
(* Claims about the lead                                                    *)

\* the play that wins trick t by the rule: the highest card of the suit of
\* the first card, the earlier of two equal ones
winningPlay(t) ==
    LET ofLead == {k \in 1 .. Len(t) : Suit(t[k].card) = Suit(t[1].card)}
    IN  t[CHOOSE k \in ofLead :
              \A j \in ofLead : \/ Value(t[j].card) < Value(t[k].card)
                                \/ Value(t[j].card) = Value(t[k].card) /\ k <= j]

\* a trick is over and the next trick of the round starts
nextTrickStarts == pc = "collect" /\ pc' = "awaitCard"

\* the first card of a trick is put on the table
leadPlayed == pc = "awaitCard" /\ Len(trick) = 0 /\ Len(trick') = 1

\* C35: within a round, the seat that wins trick k leads trick k+1, for every
\* k from 1 to 12.
C35_TrickWinnerLeadsNextTrick ==
    [][/\ nextTrickStarts => leader' = winningPlay(trick).player
       /\ leadPlayed => trick'[1].player = leader]_vars

\* the winner of the trick before has just led a trick that is not the first
C35_Witness ==
    /\ trickNum >= 1
    /\ pc = "awaitCard"
    /\ Len(trick) = 1
    /\ trick[1].player = winnerIndex
    /\ lastPlay.seat = winnerIndex

-----------------------------------------------------------------------------
(* Claims about the clicks the input controller turns down                  *)

\* nothing of the controller, of the requests or of the timers changes
controllerUntouched == UNCHANGED <<ctl, promises, timers>>

\* C36: a click on a card that is not among the current valid moves, a pass
\* confirmation with a number of cards other than 3, a card click while no
\* card selection is pending and a pass confirmation while no pass selection
\* is pending all leave the controller state, the pending request and its
\* timer unchanged and settle no promise.
C36_RejectedClicksChangeNothing ==
    [][/\ \A card \in InputCards :
              (/\ HandleCardClick(card)
               /\ \/ ctl.state # "play_pending"
                  \/ card \notin Range(ctl.validMoves)) => controllerUntouched
       /\ \A selectedCards \in PassConfirmations(argHand) :
              (/\ HandlePassConfirm(selectedCards)
               /\ \/ ctl.state # "pass_pending"
                  \/ Len(selectedCards) # 3) => controllerUntouched]_vars

\* a card that is no valid move has been clicked while a card selection was
\* pending, and the request is still pending with its timer armed
C36_Witness ==
    /\ lastCall.op = "handleCardClick"
    /\ lastCall.events = <<"INVALID_MOVE">>
    /\ ctl.state = "play_pending"
    /\ promises[ctl.pendingPlay].status = "pending"
    /\ \E t \in timers : t.id = ctl.timeout

-----------------------------------------------------------------------------
(* runMatchup of the bot simulator: a GameState in simulation mode for      *)
(* simGames games, started with startNewGame(), and the result read from    *)
(* simulation.wins.                                                         *)

MatchupBots == {"lmg", "lmlm"}

\* simulation.wins: handleGameOver counts a finished game under the key
\* simulation.team0 or simulation.team1; runMatchup sets neither field, so
\* every game is counted under the key undefined
simulationWins(sim) ==
    IF sim.completed = 0 THEN [k \in {} |-> 0] ELSE [k \in {"undefined"} |-> sim.completed]

\* game.simulation.wins[t] || 0
winsOf(sim, t) == IF t \in DOMAIN simulationWins(sim) THEN simulationWins(sim)[t] ELSE 0

\* what runMatchup returns, with the games over at that moment for the observer
matchupResult(sim, t0, t1) ==
    [op |-> "runMatchup", team0Bot |-> t0, team1Bot |-> t1,
     team0Wins |-> winsOf(sim, t0), team1Wins |-> winsOf(sim, t1),
     completed |-> sim.completed]

\* runMatchup after initializeBots: startNewGame() is called without await and
\* returns when startRound reaches its first await, in the passing phase of
\* round 1; the wins are read and returned in the same turn of the event loop
RunMatchup ==
    /\ pc = "constructed"
    /\ botIn.method = "runMatchup"
    /\ startNewGame
    /\ ruleOut' = matchupResult(simulation, botIn.team0Bot, botIn.team1Bot)
    /\ UNCHANGED <<argHand, argTrick, inputVars, initVars, emitterVars, botVars, initialHands, suspended,
                   resumptions, position, suitLed, rng, strategy, simulation, trick, leader,
                   trickNum, winnerIndex, lastPlay, lastEnd>>

\* runMatchup has built the GameState, seated four BotPlayers and set
\* game.simulation
InitMatchup ==
    /\ constructed
    /\ seated
    /\ botIn \in {[method |-> "runMatchup", team0Bot |-> t0, team1Bot |-> t1, simGames |-> n] :
                      t0 \in MatchupBots, t1 \in MatchupBots, n \in 1 .. MaxSimGames}
    /\ botOut = NoBotOut
    /\ rng \in 1 .. NumStreams
    /\ strategy = [p \in Seats |-> "fallback"]
    /\ simulation = [enabled |-> TRUE, target |-> botIn.simGames, completed |-> 0]
    /\ noRuleCall
    /\ controllerConstructed

\* the games go on after runMatchup has returned
NextMatchup ==
    \/ RunMatchup
    \/ \E p \in Seats : ResolveSelection(p)
    \/ PassingComplete
    \/ BeginPlay
    \/ PlayCard
    \/ TrickDisplayed
    \/ TrickCollected
    \/ EndRound

SpecMatchup == InitMatchup /\ [][NextMatchup]_vars

\* C37: the result runMatchup(team0, team1, n) returns is produced only after
\* n games have run to GameOver, so that team0Wins + team1Wins = n.
C37_MatchupResultAfterAllGames ==
    ruleOut.op = "runMatchup" =>
        /\ ruleOut.completed = botIn.simGames
        /\ ruleOut.team0Wins + ruleOut.team1Wins = botIn.simGames


(***************************************************************************)
(* The round trip of the BotAdapter's conversions: a hand is converted to  *)
(* the strategies' tokens, then each token is converted back against the   *)
(* same hand.  The hand is in any order, and it may hold a card more than  *)
(* once, as the hand of the seat a card was passed to several times does.  *)
(***************************************************************************)

MaxTokenHand == 3    \* largest hand converted to tokens and back

TokenCards == {0, 8, 12, 21, QueenOfSpades, TenOfDiamonds, 39, 47}

TokenHands == UNION {[1 .. n -> TokenCards] : n \in 0 .. MaxTokenHand}

\* botHand.flat(): the tokens in the order of the four arrays
flatTokens(hand2D) == hand2D[1] \o hand2D[2] \o hand2D[3] \o hand2D[4]

InitTokens ==
    /\ constructed
    /\ seated
    /\ rng = 1
    /\ strategy = [p \in Seats |-> "fallback"]
    /\ simulation = [enabled |-> FALSE, target |-> 0, completed |-> 0]
    /\ noRuleCall
    /\ controllerConstructed
    /\ botOut = NoBotOut
    /\ \E h \in TokenHands : botIn = [method |-> "convertHandToBotFormat", hand |-> h]

\* one call of convertHandToBotFormat(hand)
ConvertHandToBotFormat ==
    /\ botIn.method = "convertHandToBotFormat"
    /\ ~botOut.called
    /\ botOut' = [called |-> TRUE, botHand |-> convertHandToBotFormat(botIn.hand), cards |-> <<>>]
    /\ UNCHANGED <<gameVars, ruleVars, inputVars, initVars, emitterVars, botIn>>

\* one call of convertBotCardToCard(botCard, hand), for the next token of
\* the converted hand; no trick is on the table
ConvertBotCardToCard ==
    /\ botIn.method = "convertHandToBotFormat"
    /\ botOut.called
    /\ Len(botOut.cards) < Len(flatTokens(botOut.botHand))
    /\ LET botCard == flatTokens(botOut.botHand)[Len(botOut.cards) + 1]
       IN  botOut' = [botOut EXCEPT !.cards =
                         Append(@, convertBotCardToCard(StringValue(botCard), botIn.hand, <<>>))]
    /\ UNCHANGED <<gameVars, ruleVars, inputVars, initVars, emitterVars, botIn>>

NextTokens ==
    \/ ConvertHandToBotFormat
    \/ ConvertBotCardToCard

SpecTokens == InitTokens /\ [][NextTokens]_vars

timesIn(x, s) == Cardinality({k \in 1 .. Len(s) : s[k] = x})

handConverted == botIn.method = "convertHandToBotFormat" /\ botOut.called

allConvertedBack == handConverted /\ Len(botOut.cards) = Len(botIn.hand)

\* the tokens of array i are those of the cards of suit i of the hand, by
\* rising rank as a strategy reads a token's rank, with "T" for a ten
groupedAndAscending(hand2D, h) ==
    \A i \in 1 .. 4 :
        /\ Len(hand2D[i]) = timesIn(i - 1, [k \in 1 .. Len(h) |-> Suit(h[k])])
        /\ \A k \in 1 .. Len(hand2D[i]) :
              /\ Len(hand2D[i][k]) = 2
              /\ hand2D[i][k][2] = <<"h", "s", "d", "c">>[i]
              /\ hand2D[i][k][1] \in {"2", "3", "4", "5", "6", "7", "8", "9", "T", "J", "Q", "K", "A"}
        /\ \A k, j \in 1 .. Len(hand2D[i]) :
              k < j => toLMCard(hand2D[i][k]).rank <= toLMCard(hand2D[i][j]).rank
        /\ Len(SelectSeq(hand2D[i], LAMBDA tk : tk[1] = "T"))
              = Len(SelectSeq(h, LAMBDA c : Suit(c) = i - 1 /\ rankOf(c) = "10"))

\* C38: converting a hand to the strategies' tokens gives four arrays, hearts,
\* spades, diamonds, clubs, each by rising rank, a ten written "T"; different
\* cards have different tokens, and converting each token back against the
\* same hand gives a card every time and, all together, exactly the cards of
\* the hand, each as often as the hand holds it.
C38_TokensRoundTrip ==
    /\ handConverted =>
          /\ groupedAndAscending(botOut.botHand, botIn.hand)
          /\ Cardinality(Range(flatTokens(botOut.botHand))) = Cardinality(Range(botIn.hand))
          /\ \A k \in 1 .. Len(botOut.cards) :
                /\ ~botOut.cards[k].threw
                /\ botOut.cards[k].card \in Range(botIn.hand)
                /\ Suit(botOut.cards[k].card) = suitMap(toUpperCase(Last(flatTokens(botOut.botHand)[k])))
                /\ Value(botOut.cards[k].card) + 2 = toLMCard(flatTokens(botOut.botHand)[k]).rank
    /\ allConvertedBack =>
          \A c \in TokenCards :
              timesIn(c, [k \in 1 .. Len(botOut.cards) |-> botOut.cards[k].card]) = timesIn(c, botIn.hand)

\* a hand out of order, with a ten and two suits, has gone to tokens and back
C38_Witness ==
    /\ allConvertedBack
    /\ Len(botIn.hand) = 3
    /\ botIn.hand[1] = TenOfDiamonds
    /\ botIn.hand[2] = 12
    /\ botIn.hand[3] = 0
    /\ botOut.botHand[1] = <<<<"2", "h">>, <<"A", "h">>>>
    /\ botOut.botHand[3] = <<<<"T", "d">>>>


(***************************************************************************)
(* GameEventEmitter, for one event.  A registered function is known by the *)
(* order of its registration; handlers[f] says whether it is the wrapper   *)
(* that once() builds and what the handler given by the caller does when   *)
(* it is invoked.  listeners is the array of the event; calls[f] counts,   *)
(* as history, the invocations of the caller's handler.                    *)
(***************************************************************************)

MaxHandlers == 2    \* most registrations on the event
MaxEmits == 2       \* most calls of emit from outside a handler

\* what the handler given by the caller does: it returns, it throws, or it
\* emits the same event again, the first time it is invoked
HandlerBodies == {"returns", "throws", "emits"}

\* Array.prototype.indexOf and splice(index, 1): the array without the first f
removeFirst(handlers, f) ==
    LET found == {k \in 1 .. Len(handlers) : handlers[k] = f}
    IN  IF found = {} THEN handlers
        ELSE LET index == CHOOSE k \in found : \A j \in found : k <= j
             IN  SubSeq(handlers, 1, index - 1) \o SubSeq(handlers, index + 1, Len(handlers))

\* on(event, handler): the handler is pushed to the array of the event
on(e, wrapped, body) ==
    [e EXCEPT !.listeners = Append(@, Len(e.handlers) + 1),
              !.handlers = Append(@, [once |-> wrapped, body |-> body]),
              !.calls = Append(@, 0)]

\* once(event, handler): the wrapper is registered in the handler's place
once(e, body) == on(e, TRUE, body)

\* off(event, handler); an array left empty is deleted from the map
off(e, f) == [e EXCEPT !.listeners = removeFirst(@, f)]

RECURSIVE emit(_)
RECURSIVE forEach(_, _)

\* handler(data) inside the try of emit.  The wrapper of once calls the
\* handler and then off; when the handler throws, the wrapper is left
\* before its off, and emit's catch swallows the error
RECURSIVE invoke(_, _)
invoke(e, f) ==
    LET first == e.calls[f] = 0
        counted == [e EXCEPT !.calls[f] = @ + 1]
        returned == IF e.handlers[f].body = "emits" /\ first THEN emit(counted) ELSE counted
    IN  IF e.handlers[f].body = "throws" THEN counted
        ELSE IF e.handlers[f].once THEN off(returned, f)
        ELSE returned

\* [...handlers].forEach: the copy taken when the dispatch began
forEach(e, copy) ==
    IF copy = <<>> THEN e ELSE forEach(invoke(e, Head(copy)), Tail(copy))

\* emit(event, data)
emit(e) ==
    IF e.listeners = <<>> THEN e ELSE forEach(e, e.listeners)

InitEmitter ==
    /\ constructed
    /\ seated
    /\ rng = 1
    /\ strategy = [p \in Seats |-> "fallback"]
    /\ simulation = [enabled |-> FALSE, target |-> 0, completed |-> 0]
    /\ noRuleCall
    /\ controllerConstructed
    /\ botIn = NoBotIn
    /\ botOut = NoBotOut

emitterFrame == UNCHANGED <<gameVars, ruleVars, inputVars, initVars, botVars>>

On ==
    /\ Len(emitter.handlers) < MaxHandlers
    /\ \E body \in HandlerBodies : emitter' = on(emitter, FALSE, body)
    /\ emitterFrame

Once ==
    /\ Len(emitter.handlers) < MaxHandlers
    /\ \E body \in HandlerBodies : emitter' = once(emitter, body)
    /\ emitterFrame

Emit ==
    /\ emitter.emits < MaxEmits
    /\ emitter' = emit([emitter EXCEPT !.emits = @ + 1])
    /\ emitterFrame

NextEmitter ==
    \/ On
    \/ Once
    \/ Emit

SpecEmitter == InitEmitter /\ [][NextEmitter]_vars

\* C39: a handler registered with once is invoked at most once, whatever
\* emits of the event follow, an emit from inside a handler during a
\* dispatch included.
C39_OnceHandlerInvokedAtMostOnce ==
    \A f \in 1 .. Len(emitter.handlers) :
        emitter.handlers[f].once => emitter.calls[f] <= 1

====
